---- MODULE Spec2Model ----
(***************************************************************************)
(* Model of launch/evaluation/evaluate_images.py: the two-stage,           *)
(* container-isolated evaluation of one instance                           *)
(* (evaluate_single_instance and its helpers) and the orchestrator (main). *)
(*                                                                         *)
(* Spec      one call of evaluate_single_instance, one action per          *)
(*           statement group of the function, the container engine and the *)
(*           file system answering nondeterministically.                   *)
(* SpecMain  main(): instance-set resolution, sequential or parallel       *)
(*           dispatch, aggregation, report and exit code.                  *)
(***************************************************************************)
EXTENDS Integers, Sequences, FiniteSets, TLC

VARIABLES
    \* ---- evaluate_single_instance: inputs and environment
    fs,              \* what the file system holds for the instance directory
    install_pytest,  \* the --install-pytest toggle
    \* ---- evaluate_single_instance: locals
    pc,              \* position in the function
    result,          \* the result dictionary
    test_patch,      \* instance_data.get('test_patch', '')
    test_files,      \* extract_test_files_from_patch(test_patch)
    container,       \* the local `container`: 0 for None, else the container's id
    exc,             \* the exception in flight, if any
    thread,          \* the thread of the running exec_run_with_timeout
    probe,           \* exit code of the last pytest probe in install_pytest_in_container
    pytest_success,  \* what the last install_pytest_in_container returned:
    pytest_message,  \* (success, message)
    exit_codes,      \* test_only_exit_code, then both_patches_exit_code
    now,             \* time.time(), in whole seconds since the call
    stage_start,     \* test_only_start, then both_patches_start
    \* ---- the container engine and the log directory
    containers,      \* state of every container the engine knows
    pytest_in,       \* whether pytest runs in the image (0) and in each container
    ops,             \* the engine calls issued so far, in order
    checks,          \* the validation checks executed so far, in order
    logs,            \* what each log file under evaluation_logs holds
    \* ---- main
    mpc,             \* position in main
    args,            \* the parsed command line
    listing,         \* sorted(os.listdir(output_dir)) with each item's kind
    instances_to_eval,
    results,         \* the results-tracking dictionary (counters and details)
    futures,         \* parallel mode: state of each submitted future
    idx,             \* sequential mode: index of the instance being evaluated
    report,          \* the aggregate result files written so far
    exit_code,       \* what main returned (1 when it died of an exception), -1 before
    wpc,             \* position in write_patch_to_container
    patch_content,   \* its patch_content argument, a text
    dest_path,       \* its dest_path argument
    tar_stream,      \* the entries of the archive built in memory
    container_files, \* the files of the container the archive is uploaded to
    clock,           \* int(time.time()) as every worker reads it
    names,           \* the container names the engine holds
    workers,         \* the evaluations that take container names
    flow,            \* the setup workflow graph: current node and agent state
    csv              \* the rows export_csv wrote

evalVars == <<fs, install_pytest, pc, result, test_patch, test_files, container,
              exc, thread, probe, pytest_success, pytest_message, exit_codes, now, stage_start, containers,
              pytest_in, ops, checks, logs>>
mainVars == <<mpc, args, listing, instances_to_eval, results, futures, idx,
              report, exit_code>>
auxVars == <<wpc, patch_content, dest_path, tar_stream, container_files, clock, names, workers,
             flow, csv>>
vars == <<evalVars, mainVars, auxVars>>

None == "None"

(***************************************************************************)
(* Strings are sequences of one-character strings, so that the text       *)
(* operations of the code are computed and not assumed.                   *)
(***************************************************************************)
NL == "\n"
Whitespace == {" ", "\t", NL}

\* str.lower() on the alphabet the patches below use.
LowerChar(c) ==
    CASE c = "T" -> "t" [] c = "E" -> "e" [] c = "S" -> "s" [] c = "P" -> "p"
      [] c = "Y" -> "y" [] c = "A" -> "a" [] c = "B" -> "b" [] OTHER -> c
Lower(s) == [i \in 1..Len(s) |-> LowerChar(s[i])]

StartsWith(s, p) == Len(s) >= Len(p) /\ SubSeq(s, 1, Len(p)) = p
EndsWith(s, p) == Len(s) >= Len(p) /\ SubSeq(s, Len(s) - Len(p) + 1, Len(s)) = p
\* `p in s`
Contains(s, p) == \E i \in 1..(Len(s) - Len(p) + 1) : SubSeq(s, i, i + Len(p) - 1) = p

\* s.split(sep) for a one-character separator: every segment, empty ones too.
RECURSIVE SplitOn(_, _)
SplitOn(s, sep) ==
    IF \A i \in 1..Len(s) : s[i] # sep THEN <<s>>
    ELSE LET k == CHOOSE i \in 1..Len(s) : s[i] = sep /\ \A j \in 1..(i-1) : s[j] # sep
         IN  <<SubSeq(s, 1, k - 1)>> \o SplitOn(SubSeq(s, k + 1, Len(s)), sep)

\* s.split(): split on runs of whitespace, no empty parts.
RECURSIVE SplitWS(_)
SplitWS(s) ==
    IF s = <<>> THEN <<>>
    ELSE IF s[1] \in Whitespace THEN SplitWS(Tail(s))
    ELSE LET stops == {i \in 1..Len(s) : s[i] \in Whitespace}
             k == IF stops = {} THEN Len(s) + 1
                  ELSE CHOOSE i \in stops : \A j \in stops : i <= j
         IN  <<SubSeq(s, 1, k - 1)>> \o SplitWS(SubSeq(s, k, Len(s)))

DiffGit == <<"d","i","f","f"," ","-","-","g","i","t">>
TestWord == <<"t","e","s","t">>
DotPy == <<".","p","y">>

\* The loop body of extract_test_files_from_patch for one line.
ExtractLine(line) ==
    IF StartsWith(line, DiffGit)
    THEN LET parts == SplitWS(line)
         IN  IF Len(parts) >= 3
             THEN LET file_path == SubSeq(parts[3], 3, Len(parts[3]))
                  IN  IF Contains(Lower(file_path), TestWord) /\ EndsWith(file_path, DotPy)
                      THEN <<file_path>> ELSE <<>>
             ELSE <<>>
    ELSE <<>>

RECURSIVE ExtractLines(_)
ExtractLines(lines) ==
    IF lines = <<>> THEN <<>>
    ELSE ExtractLine(Head(lines)) \o ExtractLines(Tail(lines))

extract_test_files_from_patch(patch) ==
    IF patch = <<>> THEN <<>> ELSE ExtractLines(SplitOn(patch, NL))


(***************************************************************************)
(* Inputs of one evaluation.                                               *)
(***************************************************************************)
TestPy == <<"t","e","s","t",".","p","y">>
ModPy == <<"m",".","p","y">>
Header(old, new) == DiffGit \o <<" ","a","/">> \o old \o <<" ","b","/">> \o new
\* A test patch touching a test file, one touching no test file, an empty one.
PatchTest == Header(TestPy, TestPy) \o <<NL,"+","x">>
PatchNoTest == Header(ModPy, ModPy) \o <<NL,"+","x">>
PatchEmpty == <<>>
TestPatches == {PatchTest, PatchNoTest, PatchEmpty}

\* The instance directory as the file system holds it: the directory, the
\* instance.json in it, whether json.load accepts it, and its test_patch.
FileSystems ==
    {f \in [dir : BOOLEAN, json : BOOLEAN, loads : BOOLEAN, test_patch : TestPatches] :
        /\ (f.json => f.dir)
        /\ (f.loads => f.json)
        /\ (~f.loads => f.test_patch = PatchEmpty)}

ContainerIds == 1..2

\* The result dictionary built at the top of evaluate_single_instance.
InitialResult ==
    [status |-> "unknown", env_pass |-> FALSE, f2p_pass |-> FALSE, message |-> "",
     test_only_time |-> 0, both_patches_time |-> 0,
     test_only_passed |-> FALSE, both_patches_passed |-> FALSE]

\* No exec_run_with_timeout thread yet. `done` says result_container was filled,
\* with exit_code, or with an exception when `exception` holds.
NoThread == [alive |-> FALSE, done |-> FALSE, exit_code |-> 0, exception |-> FALSE,
             kind |-> None, c |-> 0]

LogFiles == {"test_only.log", "both_patches.log", "error.log"}

At(stage, at) == pc = [stage |-> stage, at |-> at]
Goto(stage, at) == pc' = [stage |-> stage, at |-> at]

\* An engine call, as recorded in ops.
Op(name, c, arg, outcome) ==
    [op |-> name, c |-> c, arg |-> arg, outcome |-> outcome, stage |-> pc.stage, at |-> pc.at]

EvalInit ==
    /\ fs \in FileSystems
    /\ install_pytest \in BOOLEAN
    /\ pc = [stage |-> 0, at |-> "check_dir"]
    /\ result = InitialResult
    /\ test_patch = <<>>
    /\ test_files = <<>>
    /\ container = 0
    /\ exc = None
    /\ thread = NoThread
    /\ probe = None
    /\ pytest_success = FALSE
    /\ pytest_message = None
    /\ exit_codes = <<>>
    /\ now = 0
    /\ stage_start = 0
    /\ containers = [c \in ContainerIds |-> "absent"]
    /\ pytest_in \in {[c \in {0} \cup ContainerIds |-> c = 0 /\ b] : b \in BOOLEAN}
    /\ ops = <<>>
    /\ checks = <<>>
    /\ logs = [f \in LogFiles |-> "absent"]

\* No workflow graph is running.
NoFlow == [node |-> "idle"]

\* No patch is being written, no worker takes a name, nothing is exported.
AuxIdle ==
    /\ wpc = "idle"
    /\ patch_content = <<>>
    /\ dest_path = <<>>
    /\ tar_stream = <<>>
    /\ container_files = <<>>
    /\ clock = 0
    /\ names = {}
    /\ workers = <<>>
    /\ flow = NoFlow
    /\ csv = <<>>

MainIdle ==
    /\ mpc = "idle"
    /\ args = None
    /\ listing = <<>>
    /\ instances_to_eval = <<>>
    /\ results = None
    /\ futures = <<>>
    /\ idx = 0
    /\ report = <<>>
    /\ exit_code = -1

Init == EvalInit /\ MainIdle /\ AuxIdle

(***************************************************************************)
(* evaluate_single_instance: validation (before the try block).            *)
(***************************************************************************)
\* `return result` outside the try block.
ReturnEarly(status, message) ==
    /\ result' = [result EXCEPT !.status = status, !.message = message]
    /\ Goto(0, "returned")

\* An exception outside the try block leaves the function.
Propagate(e) ==
    /\ exc' = e
    /\ Goto(0, "raised")

\* Mutant: the `return result` of the first check is missing.
CheckInstanceDir_NoReturn ==
    /\ At(0, "check_dir")
    /\ checks' = Append(checks, "instance_dir")
    /\ IF ~fs.dir
       THEN result' = [result EXCEPT !.status = "no_instance_dir"]
       ELSE UNCHANGED result
    /\ Goto(0, "check_json")
    /\ UNCHANGED <<fs, install_pytest, test_patch, test_files, container, exc, thread,
                   probe, pytest_success, pytest_message, exit_codes, now, stage_start, containers, pytest_in, ops, logs, mainVars, auxVars>>

CheckInstanceDir ==
    /\ At(0, "check_dir")
    /\ checks' = Append(checks, "instance_dir")
    /\ IF ~fs.dir
       THEN ReturnEarly("no_instance_dir", "Instance directory does not exist")
       ELSE Goto(0, "check_json") /\ UNCHANGED result
    /\ UNCHANGED <<fs, install_pytest, test_patch, test_files, container, exc, thread,
                   probe, pytest_success, pytest_message, exit_codes, now, stage_start, containers, pytest_in, ops, logs, mainVars, auxVars>>

CheckInstanceJson ==
    /\ At(0, "check_json")
    /\ checks' = Append(checks, "instance_json")
    /\ IF ~fs.json
       THEN ReturnEarly("no_instance_json", "instance.json not found")
       ELSE Goto(0, "load_json") /\ UNCHANGED result
    /\ UNCHANGED <<fs, install_pytest, test_patch, test_files, container, exc, thread,
                   probe, pytest_success, pytest_message, exit_codes, now, stage_start, containers, pytest_in, ops, logs, mainVars, auxVars>>

\* with open(...) as f: instance_data = json.load(f); the two .get calls.
LoadInstanceJson ==
    /\ At(0, "load_json")
    /\ IF fs.loads
       THEN /\ test_patch' = fs.test_patch
            /\ Goto(0, "check_patch")
            /\ UNCHANGED exc
       ELSE /\ Propagate("JSONDecodeError")
            /\ UNCHANGED test_patch
    /\ UNCHANGED <<fs, install_pytest, result, test_files, container, thread, probe, pytest_success, pytest_message, exit_codes, now, stage_start,
                   containers, pytest_in, ops, checks, logs, mainVars, auxVars>>

CheckTestPatch ==
    /\ At(0, "check_patch")
    /\ checks' = Append(checks, "test_patch")
    /\ IF test_patch = <<>>
       THEN ReturnEarly("no_test_patch", "test_patch is empty")
       ELSE Goto(0, "extract") /\ UNCHANGED result
    /\ UNCHANGED <<fs, install_pytest, test_patch, test_files, container, exc, thread,
                   probe, pytest_success, pytest_message, exit_codes, now, stage_start, containers, pytest_in, ops, logs, mainVars, auxVars>>

\* extract_test_files_from_patch(test_patch) for every patch an instance can carry.
FilesOf == [p \in TestPatches |-> extract_test_files_from_patch(p)]

ExtractTestFiles ==
    /\ At(0, "extract")
    /\ checks' = Append(checks, "test_files")
    /\ LET files == FilesOf[test_patch]
       IN /\ test_files' = files
          /\ IF files = <<>>
             THEN ReturnEarly("no_test_files", "No test container_files found in test_patch")
             ELSE Goto(0, "image") /\ UNCHANGED result
    /\ UNCHANGED <<fs, install_pytest, test_patch, container, exc, thread, probe, pytest_success, pytest_message, exit_codes, now, stage_start,
                   containers, pytest_in, ops, logs, mainVars, auxVars>>

\* client = docker.from_env(); client.images.get(image_name), ImageNotFound handled.
CheckImage ==
    /\ At(0, "image")
    /\ checks' = Append(checks, "image")
    /\ \E outcome \in {"from_env_error", "found", "ImageNotFound", "APIError"} :
         CASE outcome = "from_env_error" ->
                /\ Propagate("DockerException")
                /\ UNCHANGED <<result, ops>>
           [] outcome = "found" ->
                /\ ops' = Append(ops, Op("images.get", 0, "image", "ok"))
                /\ Goto(0, "makedirs")
                /\ UNCHANGED <<result, exc>>
           [] outcome = "ImageNotFound" ->
                /\ ops' = Append(ops, Op("images.get", 0, "image", "ImageNotFound"))
                /\ ReturnEarly("no_image", "Docker image not found")
                /\ UNCHANGED exc
           [] outcome = "APIError" ->
                /\ ops' = Append(ops, Op("images.get", 0, "image", "APIError"))
                /\ Propagate("APIError")
                /\ UNCHANGED result
    /\ UNCHANGED <<fs, install_pytest, test_patch, test_files, container, thread, probe, pytest_success, pytest_message, exit_codes,
                   now, stage_start, containers, pytest_in, logs, mainVars, auxVars>>

\* os.makedirs(logs_dir, exist_ok=True); test_cmd; container = None; container_name.
MakeLogsDir ==
    /\ At(0, "makedirs")
    /\ \E ok \in BOOLEAN :
         IF ok THEN Goto(1, "run") /\ UNCHANGED exc
         ELSE Propagate("OSError")
    /\ UNCHANGED <<fs, install_pytest, result, test_patch, test_files, container, thread,
                   probe, pytest_success, pytest_message, exit_codes, now, stage_start, containers, pytest_in, ops, checks, logs, mainVars, auxVars>>


(***************************************************************************)
(* evaluate_single_instance: the try block.                                *)
(***************************************************************************)
\* An exception inside the try block: control goes to the except clauses.
Raise(e) ==
    /\ exc' = e
    /\ Goto(pc.stage, "except")

\* Mutant: cleanup placed after the try statement instead of in a finally clause,
\* so that a `return` inside the try block skips it.
ReturnFromTry_NoFinally(status, message) ==
    /\ result' = [result EXCEPT !.status = status, !.message = message]
    /\ Goto(0, "returned")

\* `return result` inside the try block: the finally clause runs first.
ReturnFromTry(status, message) ==
    /\ result' = [result EXCEPT !.status = status, !.message = message]
    /\ Goto(pc.stage, "finally_stop")

WriteLog(file, content) == logs' = [logs EXCEPT ![file] = content]
StageLog(stage) == IF stage = 1 THEN "test_only.log" ELSE "both_patches.log"

\* container = client.containers.run(image_name, name=container_name, ...,
\* detach=True, remove=False); time.sleep(1).  A stage's container is new.
StartContainer(stage) ==
    /\ At(stage, "run")
    /\ \E outcome \in {"ok", "ImageNotFound", "APIError"} :
         IF outcome = "ok"
         THEN /\ containers' = [containers EXCEPT ![stage] = "running"]
              /\ pytest_in' = [pytest_in EXCEPT ![stage] = pytest_in[0]]
              /\ container' = stage
              /\ stage_start' = now
              /\ now' = now + 1
              /\ ops' = Append(ops, Op("run", stage, "image", "ok"))
              /\ Goto(stage, "pytest")
              /\ UNCHANGED exc
         ELSE /\ ops' = Append(ops, Op("run", 0, "image", outcome))
              /\ Raise(outcome)
              /\ UNCHANGED <<containers, pytest_in, container, now, stage_start>>
    /\ UNCHANGED <<fs, install_pytest, result, test_patch, test_files, thread, probe, pytest_success, pytest_message, exit_codes,
                   checks, logs, mainVars, auxVars>>

Stage1Start == StartContainer(1)

Stage2Start == StartContainer(2)

\* Mutant: stage 1 applies the fix patch too, as stage 2 does.
AfterPytest_AlwaysFix(stage) == "write_fix"

\* Mutant: stage 2 skips the fix patch and applies the test patch only.
AfterPytest_TestFirst(stage) == "write_test"

\* Where a stage goes once pytest is there (or is not asked for).
AfterPytest(stage) == IF stage = 1 THEN "write_test" ELSE "write_fix"

\* Mutant: a failed installation gives the stage-1 status in both stages.
InstallFailed_SameStatus(message) ==
    /\ ReturnFromTry("pytest_install_failed", message)
    /\ WriteLog(StageLog(pc.stage), "install_failed")

\* Mutant: the failed installation is recorded but the stage goes on (no return).
InstallFailed_NoReturn(message) ==
    /\ result' = [result EXCEPT !.status = IF pc.stage = 1 THEN "pytest_install_failed"
                                          ELSE "pytest_install_failed_stage2",
                                !.message = message]
    /\ Goto(pc.stage, AfterPytest(pc.stage))
    /\ WriteLog(StageLog(pc.stage), "install_failed")

\* install_pytest_in_container returned (False, message).
InstallFailed(message) ==
    /\ ReturnFromTry(IF pc.stage = 1 THEN "pytest_install_failed"
                     ELSE "pytest_install_failed_stage2", message)
    /\ WriteLog(StageLog(pc.stage), "install_failed")

\* What check_cmd answers in container c: exit code 0 iff pytest runs there, or
\* the engine call raises.
ProbeOutcomes(c) == {IF pytest_in[c] THEN "0" ELSE "1", "APIError"}

\* install_pytest_in_container returns (success, message) to its caller.
InstallReturn(success, message) ==
    /\ pytest_success' = success
    /\ pytest_message' = message
    /\ Goto(pc.stage, "pytest_done")

\* Mutant: no early return when the probe finds pytest: it is installed again.
PytestProbe_NoEarlyReturn ==
    /\ pc.at = "pytest"
    /\ install_pytest
    /\ \E outcome \in ProbeOutcomes(container) :
         /\ ops' = Append(ops, Op("exec_run", container, "pytest --version", outcome))
         /\ IF outcome = "APIError"
            THEN Raise("APIError") /\ UNCHANGED probe
            ELSE /\ probe' = IF outcome = "0" THEN 0 ELSE 1
                 /\ Goto(pc.stage, "install")
                 /\ UNCHANGED exc
    /\ UNCHANGED <<fs, install_pytest, result, test_patch, test_files, container, thread,
                   pytest_success, pytest_message, exit_codes, now, stage_start, containers,
                   pytest_in, checks, logs, mainVars, auxVars>>

\* if install_pytest: install_pytest_in_container(...) up to its first probe.
PytestProbe ==
    /\ pc.at = "pytest"
    /\ IF ~install_pytest
       THEN /\ Goto(pc.stage, AfterPytest(pc.stage))
            /\ UNCHANGED <<ops, probe, pytest_success, pytest_message, exc>>
       ELSE \E outcome \in ProbeOutcomes(container) :
              /\ ops' = Append(ops, Op("exec_run", container, "pytest --version", outcome))
              /\ CASE outcome = "0" ->
                        /\ probe' = 0
                        /\ InstallReturn(TRUE, "pytest already installed")
                        /\ UNCHANGED exc
                   [] outcome = "1" ->
                        /\ probe' = 1
                        /\ Goto(pc.stage, "install")
                        /\ UNCHANGED <<exc, pytest_success, pytest_message>>
                   [] outcome = "APIError" ->
                        /\ Raise("APIError")
                        /\ UNCHANGED <<probe, pytest_success, pytest_message>>
    /\ UNCHANGED <<fs, install_pytest, result, test_patch, test_files, container, thread,
                   exit_codes, now, stage_start, containers, pytest_in, checks, logs, mainVars, auxVars>>

\* exec_run_with_timeout up to thread.start(): the command runs on its own thread.
ThreadStart(kind, command) ==
    /\ thread' = [alive |-> TRUE, done |-> FALSE, exit_code |-> 0, exception |-> FALSE,
                  kind |-> kind, c |-> container]
    /\ ops' = Append(ops, Op("exec_run", container, command, "started"))

\* Mutant: a command that ends after the caller gave up still records its stage.
RunCommand_LateResultRecorded ==
    /\ thread.alive
    /\ \E outcome \in {"0", "1", "APIError"}, installed \in BOOLEAN :
         /\ thread' = [thread EXCEPT !.alive = FALSE, !.done = TRUE,
                                     !.exit_code = IF outcome = "0" THEN 0 ELSE 1,
                                     !.exception = (outcome = "APIError")]
         /\ pytest_in' = IF thread.kind = "install" /\ outcome = "0" /\ installed
                          THEN [pytest_in EXCEPT ![thread.c] = TRUE] ELSE pytest_in
         /\ result' = IF pc.at \in {"install_join", "test_join"} \/ thread.kind # "test"
                      THEN result
                      ELSE [result EXCEPT !.both_patches_passed = (outcome = "0")]
    /\ UNCHANGED <<fs, install_pytest, pc, test_patch, test_files, container, exc,
                   probe, pytest_success, pytest_message, exit_codes, now, stage_start,
                   containers, ops, checks, logs, mainVars, auxVars>>

\* run_command, the thread's body: exec_run returns or raises, at any later time
\* (also after the caller gave up waiting).
RunCommand ==
    /\ thread.alive
    /\ \E outcome \in {"0", "1", "APIError"}, installed \in BOOLEAN :
         /\ thread' = [thread EXCEPT !.alive = FALSE, !.done = TRUE,
                                     !.exit_code = IF outcome = "0" THEN 0 ELSE 1,
                                     !.exception = (outcome = "APIError")]
         \* a pip install that exits 0 leaves pytest runnable, or does not
         /\ pytest_in' = IF thread.kind = "install" /\ outcome = "0" /\ installed
                          THEN [pytest_in EXCEPT ![thread.c] = TRUE] ELSE pytest_in
    /\ UNCHANGED <<fs, install_pytest, pc, result, test_patch, test_files, container, exc,
                   probe, pytest_success, pytest_message, exit_codes, now, stage_start,
                   containers, ops, checks, logs, mainVars, auxVars>>

\* Mutant: thread.join() without a timeout returns only once the thread ended.
thread_join_NoTimeout(t) == ~t.alive

\* thread.join(timeout=timeout_seconds) returns whether or not the thread ended.
thread_join(t) == TRUE

\* install_cmd through exec_run_with_timeout(timeout_seconds=300).
InstallStart ==
    /\ pc.at = "install"
    /\ ThreadStart("install", "pip install pytest")
    /\ Goto(pc.stage, "install_join")
    /\ UNCHANGED <<fs, install_pytest, result, test_patch, test_files, container, exc,
                   probe, pytest_success, pytest_message, exit_codes, now, stage_start, containers, pytest_in, checks, logs, mainVars, auxVars>>

\* thread.join(timeout) of the install command and what install_pytest_in_container
\* makes of it.
InstallJoin ==
    /\ pc.at = "install_join"
    /\ thread_join(thread)
    /\ IF thread.alive
       THEN InstallReturn(FALSE, "pytest installation timed out")
       ELSE IF thread.exception
       THEN InstallReturn(FALSE, "pytest installation error")
       ELSE IF thread.exit_code = 0
       THEN Goto(pc.stage, "verify") /\ UNCHANGED <<pytest_success, pytest_message>>
       ELSE InstallReturn(FALSE, "pytest installation failed")
    /\ UNCHANGED <<fs, install_pytest, result, test_patch, test_files, container, exc, thread,
                   probe, exit_codes, now, stage_start, containers, pytest_in, ops, checks,
                   logs, mainVars, auxVars>>

\* Mutant: the verification probe is run but its exit code is not looked at.
InstallVerify_Unchecked ==
    /\ pc.at = "verify"
    /\ \E outcome \in ProbeOutcomes(container) :
         /\ ops' = Append(ops, Op("exec_run", container, "pytest --version", outcome))
         /\ IF outcome = "APIError"
            THEN InstallReturn(FALSE, "pytest installation error") /\ UNCHANGED probe
            ELSE /\ probe' = IF outcome = "0" THEN 0 ELSE 1
                 /\ InstallReturn(TRUE, "pytest installed successfully")
    /\ UNCHANGED <<fs, install_pytest, result, test_patch, test_files, container, exc, thread,
                   exit_codes, now, stage_start, containers, pytest_in, checks, logs, mainVars, auxVars>>

\* verify_result = container.exec_run(check_cmd), inside install's try block.
InstallVerify ==
    /\ pc.at = "verify"
    /\ \E outcome \in ProbeOutcomes(container) :
         /\ ops' = Append(ops, Op("exec_run", container, "pytest --version", outcome))
         /\ CASE outcome = "0" ->
                   /\ probe' = 0
                   /\ InstallReturn(TRUE, "pytest installed successfully")
              [] outcome = "1" ->
                   /\ probe' = 1
                   /\ InstallReturn(FALSE, "pytest installation verification failed")
              [] outcome = "APIError" ->
                   /\ InstallReturn(FALSE, "pytest installation error")
                   /\ UNCHANGED probe
    /\ UNCHANGED <<fs, install_pytest, result, test_patch, test_files, container, exc, thread,
                   exit_codes, now, stage_start, containers, pytest_in, checks, logs, mainVars, auxVars>>

\* pytest_success, pytest_message = install_pytest_in_container(...);
\* if not pytest_success: status, log, return result.
CheckPytest ==
    /\ pc.at = "pytest_done"
    /\ IF pytest_success
       THEN Goto(pc.stage, AfterPytest(pc.stage)) /\ UNCHANGED <<result, logs>>
       ELSE InstallFailed(pytest_message)
    /\ UNCHANGED <<fs, install_pytest, test_patch, test_files, container, exc, thread,
                   probe, pytest_success, pytest_message, exit_codes, now, stage_start,
                   containers, pytest_in, ops, checks, mainVars, auxVars>>


\* Mutant: the value put_archive returns is not looked at.
WritePatch_IgnoreSuccess ==
    /\ pc.at \in {"write_test", "write_fix"}
    /\ LET dest == IF pc.at = "write_test" THEN "/tmp/test.patch" ELSE "/tmp/fix.patch"
       IN \E outcome \in {"ok", "False", "APIError"} :
            /\ ops' = Append(ops, Op("put_archive", container, dest, outcome))
            /\ IF outcome = "APIError"
               THEN Raise("APIError")
               ELSE /\ Goto(pc.stage, IF pc.at = "write_test" THEN "apply_test"
                                      ELSE "apply_fix")
                    /\ UNCHANGED exc
    /\ UNCHANGED <<fs, install_pytest, result, test_patch, test_files, container, thread,
                   probe, pytest_success, pytest_message, exit_codes, now, stage_start,
                   containers, pytest_in, checks, logs, mainVars, auxVars>>

\* write_patch_to_container: the archive is uploaded with put_archive; a false
\* answer raises RuntimeError.
WritePatch ==
    /\ pc.at \in {"write_test", "write_fix"}
    /\ LET dest == IF pc.at = "write_test" THEN "/tmp/test.patch" ELSE "/tmp/fix.patch"
       IN \E outcome \in {"ok", "False", "APIError"} :
            /\ ops' = Append(ops, Op("put_archive", container, dest, outcome))
            /\ CASE outcome = "ok" ->
                      /\ Goto(pc.stage, IF pc.at = "write_test" THEN "apply_test" ELSE "apply_fix")
                      /\ UNCHANGED exc
                 [] outcome = "False" -> Raise("RuntimeError")
                 [] outcome = "APIError" -> Raise("APIError")
    /\ UNCHANGED <<fs, install_pytest, result, test_patch, test_files, container, thread,
                   probe, pytest_success, pytest_message, exit_codes, now, stage_start,
                   containers, pytest_in, checks, logs, mainVars, auxVars>>

\* The status of a failed git apply.
ApplyFailedStatus(stage, at) ==
    IF at = "apply_fix" THEN "fix_patch_apply_failed"
    ELSE IF stage = 1 THEN "test_patch_apply_failed"
    ELSE "test_patch_apply_failed_stage2"

\* Mutant: the exit code of git apply is not tested.
ApplyPatch_IgnoreExit ==
    /\ pc.at \in {"apply_test", "apply_fix"}
    /\ LET patch == IF pc.at = "apply_test" THEN "/tmp/test.patch" ELSE "/tmp/fix.patch"
       IN \E outcome \in {"0", "1", "APIError"} :
            /\ ops' = Append(ops, Op("exec_run", container, <<"git apply", patch>>, outcome))
            /\ IF outcome = "APIError"
               THEN Raise("APIError")
               ELSE /\ Goto(pc.stage, IF pc.at = "apply_fix" THEN "write_test" ELSE "test")
                    /\ UNCHANGED exc
    /\ UNCHANGED <<fs, install_pytest, result, test_patch, test_files, container, thread,
                   probe, pytest_success, pytest_message, exit_codes, now, stage_start, containers, pytest_in, checks, logs,
                   mainVars, auxVars>>

\* container.exec_run(git apply <patch>) and the exit-code test after it.
ApplyPatch ==
    /\ pc.at \in {"apply_test", "apply_fix"}
    /\ LET patch == IF pc.at = "apply_test" THEN "/tmp/test.patch" ELSE "/tmp/fix.patch"
       IN \E outcome \in {"0", "1", "APIError"} :
            /\ ops' = Append(ops, Op("exec_run", container, <<"git apply", patch>>, outcome))
            /\ CASE outcome = "0" ->
                      /\ Goto(pc.stage, IF pc.at = "apply_fix" THEN "write_test" ELSE "test")
                      /\ UNCHANGED <<result, exc, logs>>
                 [] outcome = "1" ->
                      /\ ReturnFromTry(ApplyFailedStatus(pc.stage, pc.at), "Failed to apply patch")
                      /\ WriteLog(StageLog(pc.stage), "apply_failed")
                      /\ UNCHANGED exc
                 [] outcome = "APIError" ->
                      /\ Raise("APIError")
                      /\ UNCHANGED <<result, logs>>
    /\ UNCHANGED <<fs, install_pytest, test_patch, test_files, container, thread,
                   probe, pytest_success, pytest_message, exit_codes, now, stage_start, containers, pytest_in, checks, mainVars, auxVars>>

\* test_cmd = f'cd /testbed && pytest -rA {test_files_str} -v', built once.
test_cmd == <<"cd /testbed && pytest -rA", test_files, "-v">>

\* test_cmd through exec_run_with_timeout(timeout_seconds=timeout).
TestStart ==
    /\ pc.at = "test"
    /\ ThreadStart("test", test_cmd)
    /\ Goto(pc.stage, "test_join")
    /\ UNCHANGED <<fs, install_pytest, result, test_patch, test_files, container, exc,
                   probe, pytest_success, pytest_message, exit_codes, now, stage_start, containers, pytest_in, checks, logs, mainVars, auxVars>>

check_test_results(code) == code = 0

\* What a stage records once its test command completed: elapsed time, pass flag.
RecordStage(r, stage, code) ==
    IF stage = 1
    THEN [r EXCEPT !.test_only_time = now - stage_start,
                   !.test_only_passed = check_test_results(code)]
    ELSE [r EXCEPT !.both_patches_time = now - stage_start,
                   !.both_patches_passed = check_test_results(code)]

\* Mutant: no `except TimeoutError` around the test command, so the timeout reaches
\* the generic handler.
TestJoin_TimeoutUncaught ==
    /\ pc.at = "test_join"
    /\ thread_join(thread)
    /\ IF thread.alive
       THEN /\ Raise("TimeoutError")
            /\ UNCHANGED <<result, logs, exit_codes>>
       ELSE IF thread.exception
       THEN /\ Raise("APIError")
            /\ UNCHANGED <<result, logs, exit_codes>>
       ELSE /\ result' = RecordStage(result, pc.stage, thread.exit_code)
            /\ WriteLog(StageLog(pc.stage), "complete")
            /\ exit_codes' = Append(exit_codes, thread.exit_code)
            /\ Goto(pc.stage, IF pc.stage = 1 THEN "stop" ELSE "classify")
            /\ UNCHANGED exc
    /\ UNCHANGED <<fs, install_pytest, test_patch, test_files, container, thread,
                   probe, pytest_success, pytest_message, now, stage_start, containers, pytest_in, ops, checks, mainVars, auxVars>>

\* Mutant: an exception stored by the command thread is reported as a timeout.
TestJoin_ExceptionAsTimeout ==
    /\ pc.at = "test_join"
    /\ thread_join(thread)
    /\ IF thread.alive \/ thread.exception
       THEN /\ ReturnFromTry(IF pc.stage = 1 THEN "test_only_timeout" ELSE "both_patches_timeout",
                             "test execution timed out")
            /\ WriteLog(StageLog(pc.stage), "timeout")
            /\ exit_codes' = Append(exit_codes, -1)
            /\ UNCHANGED exc
       ELSE /\ result' = RecordStage(result, pc.stage, thread.exit_code)
            /\ WriteLog(StageLog(pc.stage), "complete")
            /\ exit_codes' = Append(exit_codes, thread.exit_code)
            /\ Goto(pc.stage, IF pc.stage = 1 THEN "stop" ELSE "classify")
            /\ UNCHANGED exc
    /\ UNCHANGED <<fs, install_pytest, test_patch, test_files, container, thread,
                   probe, pytest_success, pytest_message, now, stage_start, containers, pytest_in, ops, checks, mainVars, auxVars>>

\* Mutant: the timeout handler kills the command it abandons.
TestJoin_KillsCommand ==
    /\ pc.at = "test_join"
    /\ thread_join(thread)
    /\ IF thread.alive
       THEN /\ ReturnFromTry(IF pc.stage = 1 THEN "test_only_timeout" ELSE "both_patches_timeout",
                             "test execution timed out")
            /\ WriteLog(StageLog(pc.stage), "timeout")
            /\ exit_codes' = Append(exit_codes, -1)
            /\ thread' = [thread EXCEPT !.alive = FALSE]
            /\ UNCHANGED exc
       ELSE IF thread.exception
       THEN /\ Raise("APIError")
            /\ UNCHANGED <<result, logs, exit_codes, thread>>
       ELSE /\ result' = RecordStage(result, pc.stage, thread.exit_code)
            /\ WriteLog(StageLog(pc.stage), "complete")
            /\ exit_codes' = Append(exit_codes, thread.exit_code)
            /\ Goto(pc.stage, IF pc.stage = 1 THEN "stop" ELSE "classify")
            /\ UNCHANGED <<exc, thread>>
    /\ UNCHANGED <<fs, install_pytest, test_patch, test_files, container,
                   probe, pytest_success, pytest_message, now, stage_start, containers, pytest_in, ops, checks, mainVars, auxVars>>

\* thread.join(timeout) of the test command and the lines after it: the timeout
\* branch, the re-raised exception, or the stage's time, pass flag and log.
TestJoin ==
    /\ pc.at = "test_join"
    /\ thread_join(thread)
    /\ IF thread.alive
       THEN /\ ReturnFromTry(IF pc.stage = 1 THEN "test_only_timeout" ELSE "both_patches_timeout",
                             "test execution timed out")
            /\ WriteLog(StageLog(pc.stage), "timeout")
            /\ exit_codes' = Append(exit_codes, -1)
            /\ UNCHANGED exc
       ELSE IF thread.exception
       THEN /\ Raise("APIError")
            /\ UNCHANGED <<result, logs, exit_codes>>
       ELSE /\ result' = RecordStage(result, pc.stage, thread.exit_code)
            /\ WriteLog(StageLog(pc.stage), "complete")
            /\ exit_codes' = Append(exit_codes, thread.exit_code)
            /\ Goto(pc.stage, IF pc.stage = 1 THEN "stop" ELSE "classify")
            /\ UNCHANGED exc
    /\ UNCHANGED <<fs, install_pytest, test_patch, test_files, container, thread,
                   probe, pytest_success, pytest_message, now, stage_start, containers, pytest_in, ops, checks, mainVars, auxVars>>

\* container.stop(timeout=5): the container is exited afterwards, or the call raises.
StopEffect(c) ==
    IF containers[c] \in {"running", "exited"}
    THEN [containers EXCEPT ![c] = "exited"] ELSE containers
CanStop(c) == containers[c] \in {"running", "exited"}

\* container.remove(): the engine removes an exited container, refuses a running one.
RemoveEffect(c) == [containers EXCEPT ![c] = "removed"]
CanRemove(c) == containers[c] = "exited"

\* Mutant: `container = None` comes before the stop, so a failed stop leaves the
\* cleanup without a container.
Stage1Stop_ForgetsContainer ==
    /\ At(1, "stop")
    /\ \E ok \in BOOLEAN :
         IF ok /\ CanStop(container)
         THEN /\ containers' = StopEffect(container)
              /\ ops' = Append(ops, Op("stop", container, "", "ok"))
              /\ Goto(1, "remove")
              /\ UNCHANGED <<exc, container>>
         ELSE /\ ops' = Append(ops, Op("stop", container, "", "APIError"))
              /\ Raise("APIError")
              /\ container' = 0
              /\ UNCHANGED containers
    /\ UNCHANGED <<pytest_in, fs, install_pytest, result, test_patch, test_files, thread,
                   probe, pytest_success, pytest_message, exit_codes, now, stage_start, checks, logs, mainVars, auxVars>>

\* Between the stages: container.stop(timeout=5).
Stage1Stop ==
    /\ At(1, "stop")
    /\ \E ok \in BOOLEAN :
         IF ok /\ CanStop(container)
         THEN /\ containers' = StopEffect(container)
              /\ ops' = Append(ops, Op("stop", container, "", "ok"))
              /\ Goto(1, "remove")
              /\ UNCHANGED exc
         ELSE /\ ops' = Append(ops, Op("stop", container, "", "APIError"))
              /\ Raise("APIError")
              /\ UNCHANGED containers
    /\ UNCHANGED <<pytest_in, fs, install_pytest, result, test_patch, test_files, container, thread,
                   probe, pytest_success, pytest_message, exit_codes, now, stage_start, checks, logs, mainVars, auxVars>>

\* Mutant: the stage-1 container is stopped but not removed before stage 2.
Stage1Remove_NoRemove ==
    /\ At(1, "remove")
    /\ container' = 0
    /\ Goto(2, "run")
    /\ UNCHANGED <<fs, install_pytest, result, test_patch, test_files, exc, thread,
                   probe, pytest_success, pytest_message, exit_codes, now, stage_start, containers, pytest_in, ops, checks, logs,
                   mainVars, auxVars>>

\* Between the stages: container.remove(); container = None.
Stage1Remove ==
    /\ At(1, "remove")
    /\ \E ok \in BOOLEAN :
         IF ok /\ CanRemove(container)
         THEN /\ containers' = RemoveEffect(container)
              /\ ops' = Append(ops, Op("remove", container, "", "ok"))
              /\ container' = 0
              /\ Goto(2, "run")
              /\ UNCHANGED exc
         ELSE /\ ops' = Append(ops, Op("remove", container, "", "APIError"))
              /\ Raise("APIError")
              /\ UNCHANGED <<containers, container>>
    /\ UNCHANGED <<pytest_in, fs, install_pytest, result, test_patch, test_files, thread,
                   probe, pytest_success, pytest_message, exit_codes, now, stage_start, checks, logs, mainVars, auxVars>>

\* Mutant: the status is set from f2p_pass but the flag is not stored.
Classify_FlagNotStored(r) ==
    LET env_pass == r.both_patches_passed
        f2p_pass == ~r.test_only_passed /\ r.both_patches_passed
    IN  [r EXCEPT !.env_pass = env_pass,
                  !.status = IF f2p_pass THEN "f2p_passed"
                             ELSE IF env_pass THEN "env_passed" ELSE "failed"]

\* Mutant: the elif chain tests env_pass before f2p_pass.
Classify_EnvFirst(r) ==
    LET env_pass == r.both_patches_passed
        f2p_pass == ~r.test_only_passed /\ r.both_patches_passed
    IN  [r EXCEPT !.env_pass = env_pass,
                  !.f2p_pass = f2p_pass,
                  !.status = IF env_pass THEN "env_passed"
                             ELSE IF f2p_pass THEN "f2p_passed" ELSE "failed"]

\* Mutant: f2p_pass forgets `and both_patches_passed`.
Classify_F2pOnStage1Only(r) ==
    LET env_pass == r.both_patches_passed
        f2p_pass == ~r.test_only_passed
    IN  [r EXCEPT !.env_pass = env_pass,
                  !.f2p_pass = f2p_pass,
                  !.status = IF f2p_pass THEN "f2p_passed"
                             ELSE IF env_pass THEN "env_passed" ELSE "failed"]

\* Mutant: the chain has no else branch, so a failed run keeps the status it had.
Classify_NoElse(r) ==
    LET env_pass == r.both_patches_passed
        f2p_pass == ~r.test_only_passed /\ r.both_patches_passed
    IN  [r EXCEPT !.env_pass = env_pass,
                  !.f2p_pass = f2p_pass,
                  !.status = IF f2p_pass THEN "f2p_passed"
                             ELSE IF env_pass THEN "env_passed" ELSE r.status]

\* "Determine final result": env_pass, f2p_pass and the status.
Classify(r) ==
    LET env_pass == r.both_patches_passed
        test_only_failed == ~r.test_only_passed
        f2p_pass == test_only_failed /\ r.both_patches_passed
    IN  [r EXCEPT !.env_pass = env_pass,
                  !.f2p_pass = f2p_pass,
                  !.status = IF f2p_pass THEN "f2p_passed"
                             ELSE IF env_pass THEN "env_passed" ELSE "failed",
                  !.message = IF f2p_pass THEN "F2P passed"
                              ELSE IF env_pass THEN "Env passed"
                              ELSE "Both_patches stage failed"]

DetermineFinalResult ==
    /\ At(2, "classify")
    /\ result' = Classify(result)
    /\ Goto(2, "finally_stop")
    /\ UNCHANGED <<fs, install_pytest, test_patch, test_files, container, exc, thread,
                   probe, pytest_success, pytest_message, exit_codes, now, stage_start, containers, pytest_in, ops, checks, logs, mainVars, auxVars>>

\* Mutant: every exception is reported as a missing image.
Except_AllNoImage ==
    /\ pc.at = "except"
    /\ result' = [result EXCEPT !.status = "no_image", !.message = "Docker image not found"]
    /\ exc' = None
    /\ Goto(pc.stage, "finally_stop")
    /\ UNCHANGED <<fs, install_pytest, test_patch, test_files, container, thread,
                   probe, pytest_success, pytest_message, exit_codes, now, stage_start, containers, pytest_in, ops, checks, logs,
                   mainVars, auxVars>>

\* The except clauses: ImageNotFound, then Exception (which writes error.log).
Except ==
    /\ pc.at = "except"
    /\ IF exc = "ImageNotFound"
       THEN /\ result' = [result EXCEPT !.status = "no_image",
                                        !.message = "Docker image not found"]
            /\ UNCHANGED logs
       ELSE /\ result' = [result EXCEPT !.status = "error", !.message = "Unexpected error"]
            /\ WriteLog("error.log", exc)
    /\ exc' = None
    /\ Goto(pc.stage, "finally_stop")
    /\ UNCHANGED <<fs, install_pytest, test_patch, test_files, container, thread,
                   probe, pytest_success, pytest_message, exit_codes, now, stage_start, containers, pytest_in, ops, checks, mainVars, auxVars>>

\* Mutant: stop and remove share one try block, so a failed stop skips the remove.
FinallyStop_OneTry ==
    /\ pc.at = "finally_stop"
    /\ IF container = 0
       THEN /\ Goto(0, "returned")
            /\ UNCHANGED <<containers, ops>>
       ELSE \E ok \in BOOLEAN :
              IF ok /\ CanStop(container)
              THEN /\ containers' = StopEffect(container)
                   /\ ops' = Append(ops, Op("stop", container, "", "ok"))
                   /\ Goto(pc.stage, "finally_remove")
              ELSE /\ ops' = Append(ops, Op("stop", container, "", "APIError"))
                   /\ Goto(0, "returned")
                   /\ UNCHANGED containers
    /\ UNCHANGED <<pytest_in, fs, install_pytest, result, test_patch, test_files, container, exc,
                   thread, probe, pytest_success, pytest_message, exit_codes, now, stage_start, checks, logs, mainVars, auxVars>>

\* finally: if container: try: container.stop(timeout=5) except: pass
FinallyStop ==
    /\ pc.at = "finally_stop"
    /\ IF container = 0
       THEN /\ Goto(0, "returned")
            /\ UNCHANGED <<containers, ops>>
       ELSE /\ \E ok \in BOOLEAN :
                 IF ok /\ CanStop(container)
                 THEN /\ containers' = StopEffect(container)
                      /\ ops' = Append(ops, Op("stop", container, "", "ok"))
                 ELSE /\ ops' = Append(ops, Op("stop", container, "", "APIError"))
                      /\ UNCHANGED containers
            /\ Goto(pc.stage, "finally_remove")
    /\ UNCHANGED <<pytest_in, fs, install_pytest, result, test_patch, test_files, container, exc,
                   thread, probe, pytest_success, pytest_message, exit_codes, now, stage_start, checks, logs, mainVars, auxVars>>

\* finally: try: container.remove() except: pass; then `return result`.
FinallyRemove ==
    /\ pc.at = "finally_remove"
    /\ \E ok \in BOOLEAN :
         IF ok /\ CanRemove(container)
         THEN /\ containers' = RemoveEffect(container)
              /\ ops' = Append(ops, Op("remove", container, "", "ok"))
         ELSE /\ ops' = Append(ops, Op("remove", container, "", "APIError"))
              /\ UNCHANGED containers
    /\ Goto(0, "returned")
    /\ UNCHANGED <<pytest_in, fs, install_pytest, result, test_patch, test_files, container, exc,
                   thread, probe, pytest_success, pytest_message, exit_codes, now, stage_start, checks, logs, mainVars, auxVars>>

EvalNext ==
    \/ CheckInstanceDir \/ CheckInstanceJson \/ LoadInstanceJson \/ CheckTestPatch
    \/ ExtractTestFiles \/ CheckImage \/ MakeLogsDir
    \/ Stage1Start \/ PytestProbe \/ InstallStart \/ RunCommand \/ InstallJoin
    \/ InstallVerify \/ CheckPytest \/ WritePatch \/ ApplyPatch \/ TestStart \/ TestJoin
    \/ Stage1Stop \/ Stage1Remove \/ Stage2Start \/ DetermineFinalResult
    \/ Except \/ FinallyStop \/ FinallyRemove

Next == EvalNext

Spec == Init /\ [][Next]_vars

\* The steps of the thread that runs evaluate_single_instance: every step but the
\* command's own, which run_command takes on the daemon thread.
EvalProgress ==
    \/ CheckInstanceDir \/ CheckInstanceJson \/ LoadInstanceJson \/ CheckTestPatch
    \/ ExtractTestFiles \/ CheckImage \/ MakeLogsDir
    \/ Stage1Start \/ PytestProbe \/ InstallStart \/ InstallJoin
    \/ InstallVerify \/ CheckPytest \/ WritePatch \/ ApplyPatch \/ TestStart \/ TestJoin
    \/ Stage1Stop \/ Stage1Remove \/ Stage2Start \/ DetermineFinalResult
    \/ Except \/ FinallyStop \/ FinallyRemove

\* The calling thread keeps being scheduled and every engine call it makes itself
\* returns or raises; the command on the daemon thread may run forever.
FairSpec == Spec /\ WF_vars(EvalProgress)


(***************************************************************************)
(* main(): the orchestrator.  One evaluation is one step here: workers are *)
(* separate processes that share nothing with main, which sees of an       *)
(* evaluation only the returned record or the exception that left it       *)
(* (EvalOutcomes; Spec's invariant ReturnsAnOutcome ties the two).         *)
(***************************************************************************)
NumInstances == 2
Ids == 1..NumInstances

\* What evaluate_single_instance hands back: status with the two flags.
Outcome(status, env_pass, f2p_pass) ==
    [status |-> status, env_pass |-> env_pass, f2p_pass |-> f2p_pass]

FailureStatuses ==
    {"failed", "no_instance_dir", "no_instance_json", "no_test_patch", "no_test_files",
     "no_image", "pytest_install_failed", "pytest_install_failed_stage2",
     "test_patch_apply_failed", "test_patch_apply_failed_stage2",
     "fix_patch_apply_failed", "test_only_timeout", "both_patches_timeout", "error"}

\* Every way a call of evaluate_single_instance ends: a returned record, or an
\* exception raised before its try block.
Raised == Outcome("raised", FALSE, FALSE)
EvalOutcomes ==
    {Outcome("f2p_passed", TRUE, TRUE), Outcome("env_passed", TRUE, FALSE), Raised}
    \cup {Outcome(st, FALSE, FALSE) : st \in FailureStatuses}

\* Invariant of Spec: a record the evaluator returns is one of EvalOutcomes (each
\* of them is reachable there, and so is pc.at = "raised").
ReturnsAnOutcome ==
    pc.at = "returned" =>
       Outcome(result.status, result.env_pass, result.f2p_pass) \in EvalOutcomes \ {Raised}

\* The entries of the output directory, sorted by name: a plain file, a directory
\* without instance.json, or an instance directory.
ItemKinds == {"file", "dir", "instance"}
AllInstances == [i \in Ids |-> "instance"]

\* The command line: whether output_dir exists, --instances, --parallel,
\* --max_instances (<<>> for None, <<n>> for the number n).
ExplicitLists == {<<>>, <<1>>, <<2, 1>>}
ArgSets ==
    [output_dir_exists : BOOLEAN, instances : ExplicitLists, parallel : {1, 2},
     max_instances : {<<>>, <<0>>, <<1>>}]

EvalIdle ==
    /\ fs = [dir |-> TRUE, json |-> TRUE, loads |-> TRUE, test_patch |-> PatchTest]
    /\ install_pytest = FALSE
    /\ pc = [stage |-> 0, at |-> "idle"]
    /\ result = InitialResult
    /\ test_patch = <<>>
    /\ test_files = <<>>
    /\ container = 0
    /\ exc = None
    /\ thread = NoThread
    /\ probe = None
    /\ pytest_success = FALSE
    /\ pytest_message = None
    /\ exit_codes = <<>>
    /\ now = 0
    /\ stage_start = 0
    /\ containers = [c \in ContainerIds |-> "absent"]
    /\ pytest_in = [c \in {0} \cup ContainerIds |-> FALSE]
    /\ ops = <<>>
    /\ checks = <<>>
    /\ logs = [f \in LogFiles |-> "absent"]

NoResults ==
    [total |-> 0, env_passed |-> 0, f2p_passed |-> 0, failed |-> 0, no_image |-> 0,
     error |-> 0, details |-> <<>>]

MainInit ==
    /\ EvalIdle
    /\ AuxIdle
    /\ mpc = "start"
    /\ args \in ArgSets
    /\ listing \in [Ids -> ItemKinds]
    \* the listing is read only when output_dir exists and no --instances is given
    /\ (~args.output_dir_exists \/ args.instances # <<>>) => listing = AllInstances
    /\ ~args.output_dir_exists =>
          args = [output_dir_exists |-> FALSE, instances |-> <<>>, parallel |-> 1,
                  max_instances |-> <<>>]
    /\ instances_to_eval = <<>>
    /\ results = NoResults
    /\ futures = <<>>
    /\ idx = 0
    /\ report = <<>>
    /\ exit_code = -1

\* [x for x in seq if keep(x)] for the listing: the instance directories, in order.
RECURSIVE FoundInstances(_, _)
FoundInstances(items, i) ==
    IF i > Len(items) THEN <<>>
    ELSE (IF items[i] = "instance" THEN <<i>> ELSE <<>>) \o FoundInstances(items, i + 1)

\* instances_to_eval[:n]
Take(seq, n) == SubSeq(seq, 1, IF n < Len(seq) THEN n ELSE Len(seq))

\* "Find instances to evaluate" and the --max_instances cap.
ResolveInstances(a, items) ==
    LET found == IF a.instances # <<>> THEN a.instances ELSE FoundInstances(items, 1)
    \* `if args.max_instances:` is false for None and for 0
    IN  IF a.max_instances # <<>> /\ a.max_instances[1] # 0
        THEN Take(found, a.max_instances[1]) ELSE found

\* main up to the dispatch: the output_dir check, the instance set, the counters
\* and, in parallel mode, the submission of every instance to the pool.
Start ==
    /\ mpc = "start"
    /\ IF ~args.output_dir_exists
       THEN /\ exit_code' = 1
            /\ mpc' = "exited"
            /\ UNCHANGED <<instances_to_eval, results, futures, idx>>
       ELSE /\ instances_to_eval' = ResolveInstances(args, listing)
            /\ results' = [NoResults EXCEPT !.total = Len(instances_to_eval')]
            /\ IF args.parallel > 1
               THEN /\ futures' = [k \in 1..Len(instances_to_eval') |->
                                     [state |-> "pending", outcome |-> Raised]]
                    /\ mpc' = "as_completed"
                    /\ UNCHANGED idx
               ELSE /\ idx' = 1
                    /\ mpc' = "sequential"
                    /\ UNCHANGED futures
            /\ UNCHANGED exit_code
    /\ UNCHANGED <<args, listing, report, evalVars, auxVars>>

\* The detail record appended for a returned result.
Detail(inst, o) ==
    [instance_id |-> inst, status |-> o.status, env_pass |-> o.env_pass,
     f2p_pass |-> o.f2p_pass]

\* results['details'].append(result) and "Update counts".
UpdateCounts(res, inst, o) ==
    LET counted ==
          IF o.f2p_pass THEN [res EXCEPT !.f2p_passed = @ + 1]
          ELSE IF o.env_pass THEN [res EXCEPT !.env_passed = @ + 1]
          ELSE LET failed == [res EXCEPT !.failed = @ + 1]
               IN  IF o.status = "no_image" THEN [failed EXCEPT !.no_image = @ + 1]
                   ELSE IF o.status = "error" THEN [failed EXCEPT !.error = @ + 1]
                   ELSE failed
    IN  [counted EXCEPT !.details = Append(@, Detail(inst, o))]

\* Mutant: the except branch counts the error but not the failure.
RecordException_ErrorOnly(res, inst) ==
    [res EXCEPT !.error = @ + 1,
                !.details = Append(@, Detail(inst, Outcome("error", FALSE, FALSE)))]

\* The except branch of the as_completed loop.
RecordException(res, inst) ==
    [res EXCEPT !.failed = @ + 1, !.error = @ + 1,
                !.details = Append(@, Detail(inst, Outcome("error", FALSE, FALSE)))]

\* One iteration of the sequential loop: evaluate, append, count.  An exception
\* of evaluate_single_instance is not caught here and ends main.
SequentialStep ==
    /\ mpc = "sequential"
    /\ idx <= Len(instances_to_eval)
    /\ \E o \in EvalOutcomes :
         IF o = Raised
         THEN /\ mpc' = "crashed"
              /\ exit_code' = 1
              /\ UNCHANGED <<results, idx>>
         ELSE /\ results' = UpdateCounts(results, instances_to_eval[idx], o)
              /\ idx' = idx + 1
              /\ UNCHANGED <<mpc, exit_code>>
    /\ UNCHANGED <<args, listing, instances_to_eval, futures, report, evalVars, auxVars>>

SequentialDone ==
    /\ mpc = "sequential"
    /\ idx > Len(instances_to_eval)
    /\ mpc' = "report"
    /\ UNCHANGED <<args, listing, instances_to_eval, results, futures, idx, report,
                   exit_code, evalVars, auxVars>>

\* Mutant: the workers share the aggregate with the coordinator (threads in one
\* process) and count their own result as well.
WorkerRun_UpdatesCounts ==
    /\ mpc = "as_completed"
    /\ \E k \in 1..Len(futures) :
         /\ futures[k].state = "pending"
         /\ \E o \in EvalOutcomes :
              /\ futures' = [futures EXCEPT ![k] = [state |-> "done", outcome |-> o]]
              /\ results' = IF o = Raised THEN results
                            ELSE UpdateCounts(results, instances_to_eval[k], o)
    /\ UNCHANGED <<mpc, args, listing, instances_to_eval, idx, report,
                   exit_code, evalVars, auxVars>>

\* A worker process runs evaluate_instance_wrapper for one submitted instance and
\* its future completes, with the returned record or the exception.
WorkerRun ==
    /\ mpc = "as_completed"
    /\ \E k \in 1..Len(futures) :
         /\ futures[k].state = "pending"
         /\ \E o \in EvalOutcomes :
              futures' = [futures EXCEPT ![k] = [state |-> "done", outcome |-> o]]
    /\ UNCHANGED <<mpc, args, listing, instances_to_eval, results, idx, report,
                   exit_code, evalVars, auxVars>>

\* Mutant: an exception from a worker ends the collection loop, and what completes
\* later is never counted.
Collect_ExceptionAborts ==
    /\ mpc = "as_completed"
    /\ \E k \in 1..Len(futures) :
         /\ futures[k].state = "done"
         /\ IF futures[k].outcome = Raised
            THEN /\ futures' = [j \in 1..Len(futures) |->
                                  [futures[j] EXCEPT !.state = "collected"]]
                 /\ results' = RecordException(results, instances_to_eval[k])
            ELSE /\ futures' = [futures EXCEPT ![k].state = "collected"]
                 /\ results' = UpdateCounts(results, instances_to_eval[k], futures[k].outcome)
    /\ UNCHANGED <<mpc, args, listing, instances_to_eval, idx, report, exit_code, evalVars, auxVars>>

\* One iteration of `for future in as_completed(futures)`: future.result(), then
\* append and count, or the except branch.
Collect ==
    /\ mpc = "as_completed"
    /\ \E k \in 1..Len(futures) :
         /\ futures[k].state = "done"
         /\ futures' = [futures EXCEPT ![k].state = "collected"]
         /\ results' = IF futures[k].outcome = Raised
                       THEN RecordException(results, instances_to_eval[k])
                       ELSE UpdateCounts(results, instances_to_eval[k], futures[k].outcome)
    /\ UNCHANGED <<mpc, args, listing, instances_to_eval, idx, report, exit_code, evalVars, auxVars>>

ParallelDone ==
    /\ mpc = "as_completed"
    /\ \A k \in 1..Len(futures) : futures[k].state = "collected"
    /\ mpc' = "report"
    /\ UNCHANGED <<args, listing, instances_to_eval, results, futures, idx, report,
                   exit_code, evalVars, auxVars>>

\* "Save detailed results": the summary is dumped to the result file.
WriteReport ==
    /\ mpc = "report"
    /\ report' = Append(report,
                        [total |-> results.total, f2p_passed |-> results.f2p_passed,
                         env_passed |-> results.env_passed, failed |-> results.failed,
                         no_image |-> results.no_image, error |-> results.error,
                         details |-> results.details])
    /\ mpc' = "return"
    /\ UNCHANGED <<args, listing, instances_to_eval, results, futures, idx, exit_code,
                   evalVars, auxVars>>

\* Mutant: only the error counter decides the exit code.
ExitCode_OnlyErrors(res) == IF res.error = 0 THEN 0 ELSE 1

\* return 0 if results['failed'] == 0 else 1
ExitCode(res) == IF res.failed = 0 THEN 0 ELSE 1

Return ==
    /\ mpc = "return"
    /\ exit_code' = ExitCode(results)
    /\ mpc' = "exited"
    /\ UNCHANGED <<args, listing, instances_to_eval, results, futures, idx, report,
                   evalVars, auxVars>>

MainNext ==
    \/ Start \/ SequentialStep \/ SequentialDone \/ WorkerRun \/ Collect
    \/ ParallelDone \/ WriteReport \/ Return

SpecMain == MainInit /\ [][MainNext]_vars


(***************************************************************************)
(* Properties.                                                             *)
(***************************************************************************)
Returned == pc.at = "returned"
Created(c) == containers[c] # "absent"
Existing(c) == containers[c] \in {"running", "exited"}
NoContainerCreated == \A c \in ContainerIds : ~Created(c)
\* Past "Determine final result", both stage logs holding a completed test run.
Classified ==
    /\ pc.at \in {"finally_stop", "finally_remove", "returned"}
    /\ logs["test_only.log"] = "complete"
    /\ logs["both_patches.log"] = "complete"
    /\ Len(exit_codes) = 2

\* C1: when both stages ran to completion, the status and the two flags follow
\* the truth table over (stage 1 exit code = 0, stage 2 exit code = 0):
\* (F,T) -> f2p_passed/true/true, (T,T) -> env_passed/false/true,
\* (F,F) and (T,F) -> failed/false/false.
C1_TruthTable ==
    Classified =>
      LET p1 == exit_codes[1] = 0
          p2 == exit_codes[2] = 0
      IN  /\ (~p1 /\ p2) =>
                result.status = "f2p_passed" /\ result.f2p_pass /\ result.env_pass
          /\ (p1 /\ p2) =>
                result.status = "env_passed" /\ ~result.f2p_pass /\ result.env_pass
          /\ ~p2 =>
                result.status = "failed" /\ ~result.f2p_pass /\ ~result.env_pass

C1_Witness ==
    Returned /\ Classified /\ exit_codes = <<1, 0>> /\ result.status = "f2p_passed"

\* C2: in every returned record, whatever the exit path, f2p_pass implies env_pass.
C2_F2pImpliesEnv == Returned => (result.f2p_pass => result.env_pass)

C2_Witness == Returned /\ result.f2p_pass /\ result.env_pass /\ exit_codes = <<1, 0>>

\* C3: at most one container exists at any time; the stage-2 container is started
\* only after stop and remove of the stage-1 container both succeeded; every
\* stage-2 command is issued to the stage-2 container.
C3_OneContainerAtATime ==
    /\ Cardinality({c \in ContainerIds : Existing(c)}) <= 1
    /\ \A j \in 1..Len(ops) :
         (ops[j].op = "run" /\ ops[j].stage = 2) =>
            \E i, k \in 1..(j - 1) :
               /\ i < k
               /\ ops[i].op = "stop" /\ ops[i].c = 1 /\ ops[i].outcome = "ok"
               /\ ops[k].op = "remove" /\ ops[k].c = 1 /\ ops[k].outcome = "ok"
    /\ \A j \in 1..Len(ops) :
         (ops[j].stage = 2 /\ ops[j].op \in {"exec_run", "put_archive"}) =>
            ops[j].c = 2 /\ containers[1] = "removed"

C3_Witness ==
    /\ containers[1] = "removed" /\ containers[2] = "running"
    /\ \E j \in 1..Len(ops) : ops[j].stage = 2 /\ ops[j].op = "exec_run" /\ ops[j].c = 2

\* C4: when the function is left, by return or by exception, every container it
\* created has had a stop and a remove issued for it.
C4_TeardownOnEveryExit ==
    pc.at \in {"returned", "raised"} =>
      \A c \in ContainerIds :
         Created(c) =>
            /\ \E i \in 1..Len(ops) : ops[i].op = "stop" /\ ops[i].c = c
            /\ \E i \in 1..Len(ops) : ops[i].op = "remove" /\ ops[i].c = c

C4_Witness == Returned /\ result.status = "test_only_timeout" /\ Created(1)

\* C5: the final cleanup changes neither the result nor raises: while in the
\* finally clause no step changes result or puts an exception in flight, and a
\* stop that failed there is followed by a remove of the same container.
C5_CleanupErrorsSwallowed ==
    /\ [][pc.at \in {"finally_stop", "finally_remove"} =>
            /\ result' = result
            /\ exc' = exc
            /\ pc'.at \notin {"raised", "except"}]_vars
    /\ [](Returned =>
            \A i \in 1..Len(ops) :
               (ops[i].at = "finally_stop" /\ ops[i].outcome # "ok") =>
                  \E j \in (i + 1)..Len(ops) :
                     /\ ops[j].at = "finally_remove"
                     /\ ops[j].op = "remove"
                     /\ ops[j].c = ops[i].c)

C5_Witness ==
    /\ Returned /\ result.status = "f2p_passed"
    /\ \E i \in 1..Len(ops) : ops[i].at = "finally_stop" /\ ops[i].outcome # "ok"
    /\ ops[Len(ops)].at = "finally_remove" /\ ops[Len(ops)].outcome # "ok"

Terminated == mpc \in {"exited", "crashed"}

\* C6: main evaluates every resolved instance and writes the aggregate report,
\* in both modes, also when an evaluation raises.
C6_AlwaysReports ==
    (Terminated /\ args.output_dir_exists) =>
       /\ mpc = "exited"
       /\ Len(report) = 1
       /\ Len(results.details) = Len(instances_to_eval)

\* C7: evaluate_single_instance never lets an exception out: a failure at any
\* step ends in a returned record with status error, both flags false and error.log.
C7_NeverPropagates ==
    /\ pc.at # "raised"
    /\ (Returned /\ result.status = "error") =>
          ~result.f2p_pass /\ ~result.env_pass /\ logs["error.log"] # "absent"

Passing(d) == d.status \in {"f2p_passed", "env_passed"}
\* Every instance main evaluated ended with a passing status (an evaluation that
\* raised in sequential mode ended with none).
EveryInstancePassed ==
    /\ mpc # "crashed"
    /\ \A i \in 1..Len(results.details) : Passing(results.details[i])

\* C8 as stated: the exit code is 0 iff every evaluated instance ended with
\* f2p_passed or env_passed.
C8_ExitCodeIff == Terminated => (exit_code = 0 <=> EveryInstancePassed)

\* C8 amended: when the output directory exists the exit code is 0 iff every
\* evaluated instance ended with f2p_passed or env_passed; when it does not exist
\* main returns 1 without evaluating anything.
C8_ExitCodeIffDirExists ==
    Terminated =>
       IF args.output_dir_exists
       THEN /\ exit_code = 0 <=> EveryInstancePassed
            /\ mpc = "exited" => Len(results.details) = Len(instances_to_eval)
       ELSE exit_code = 1 /\ results.details = <<>> /\ report = <<>>

C8_Witness ==
    /\ mpc = "exited" /\ exit_code = 0 /\ Len(results.details) = 2
    /\ results.details[1].status = "env_passed"

ValidationOrder == <<"instance_dir", "instance_json", "test_patch", "test_files", "image">>
ValidationStatus ==
    <<"no_instance_dir", "no_instance_json", "no_test_patch", "no_test_files", "no_image">>
\* The function returned out of check k: its status, only the checks up to k
\* executed, both flags false, no container and no engine call but the lookup.
ReturnedAtCheck(k) ==
    /\ result.status = ValidationStatus[k]
    /\ checks = SubSeq(ValidationOrder, 1, k)
    /\ ~result.f2p_pass /\ ~result.env_pass
    /\ NoContainerCreated
    /\ \A i \in 1..Len(ops) : ops[i].op = "images.get"
    /\ exit_codes = <<>>
ImageAbsentAtLookup ==
    \E i \in 1..Len(ops) : ops[i].op = "images.get" /\ ops[i].outcome = "ImageNotFound"

\* C9: validation runs in the order directory, instance.json, test patch, test
\* files, image; the first failing check gives the status and the function
\* returns at once: flags false, no container, no later check, no stage.
C9_ValidationOrder ==
    Returned =>
       /\ ~fs.dir => ReturnedAtCheck(1)
       /\ (fs.dir /\ ~fs.json) => ReturnedAtCheck(2)
       /\ (fs.loads /\ fs.test_patch = PatchEmpty) => ReturnedAtCheck(3)
       /\ (fs.loads /\ fs.test_patch = PatchNoTest) => ReturnedAtCheck(4)
       /\ ImageAbsentAtLookup => ReturnedAtCheck(5)
       /\ (\E k \in 1..4 : result.status = ValidationStatus[k]) =>
             checks = SubSeq(ValidationOrder, 1,
                             CHOOSE k \in 1..4 : result.status = ValidationStatus[k])

C9_Witness == Returned /\ result.status = "no_test_files" /\ Len(checks) = 4

\* C10 as stated: a returned no_image means no container was ever created and
\* both time fields are 0.
C10_NoImageNoContainer ==
    (Returned /\ result.status = "no_image") =>
       /\ NoContainerCreated
       /\ result.test_only_time = 0
       /\ result.both_patches_time = 0

ImageAbsentBeforeStage2 ==
    \E i \in 1..Len(ops) : ops[i].outcome = "ImageNotFound" /\ ops[i].stage < 2

\* C10 amended: a returned no_image means both_patches_time is 0, no stage-2
\* container was created and no container exists any more; if the image was found
\* absent by the lookup or by the stage-1 container start, no container was
\* created at all and test_only_time is 0; otherwise the stage-2 container start
\* raised ImageNotFound after stage 1 ran in a container that was removed.
C10_NoImageAmended ==
    (Returned /\ result.status = "no_image") =>
       /\ result.both_patches_time = 0
       /\ ~Created(2)
       /\ \A c \in ContainerIds : ~Existing(c)
       /\ IF ImageAbsentBeforeStage2
          THEN NoContainerCreated /\ result.test_only_time = 0
          ELSE /\ containers[1] = "removed"
               /\ ops[Len(ops)].op = "run" /\ ops[Len(ops)].stage = 2
               /\ ops[Len(ops)].outcome = "ImageNotFound"

C10_Witness ==
    /\ Returned /\ result.status = "no_image"
    /\ containers[1] = "removed" /\ result.test_only_time > 0

\* ---------------------------------------------------------------------------
\* test_pytest_installation: one container, install_pytest_in_container twice.
\* ---------------------------------------------------------------------------

\* The state when test_pytest_installation enters its try block.
InstallInit ==
    /\ fs = [dir |-> TRUE, json |-> TRUE, loads |-> TRUE, test_patch |-> PatchTest]
    /\ install_pytest = TRUE
    /\ pc = [stage |-> 0, at |-> "t_run"]
    /\ result = InitialResult
    /\ test_patch = <<>>
    /\ test_files = <<>>
    /\ container = 0
    /\ exc = None
    /\ thread = NoThread
    /\ probe = None
    /\ pytest_success = FALSE
    /\ pytest_message = None
    /\ exit_codes = <<>>
    /\ now = 0
    /\ stage_start = 0
    /\ containers = [c \in ContainerIds |-> "absent"]
    /\ pytest_in \in {[c \in {0} \cup ContainerIds |-> c = 0 /\ b] : b \in BOOLEAN}
    /\ ops = <<>>
    /\ checks = <<>>
    /\ logs = [f \in LogFiles |-> "absent"]
    /\ MainIdle
    /\ AuxIdle

\* How many times install_pytest_in_container has been entered.
Calls == Cardinality({i \in DOMAIN ops : ops[i].at = "pytest"})

\* container = client.containers.run("python:3.9-slim", ...); time.sleep(2).
TestRun ==
    /\ pc.at = "t_run"
    /\ \E ok \in BOOLEAN :
         IF ok
         THEN /\ containers' = [containers EXCEPT ![1] = "running"]
              /\ pytest_in' = [pytest_in EXCEPT ![1] = pytest_in[0]]
              /\ container' = 1
              /\ ops' = Append(ops, Op("run", 1, "python:3.9-slim", "ok"))
              /\ Goto(0, "t_check")
              /\ UNCHANGED exc
         ELSE /\ ops' = Append(ops, Op("run", 0, "python:3.9-slim", "APIError"))
              /\ Raise("APIError")
              /\ UNCHANGED <<containers, pytest_in, container>>
    /\ UNCHANGED <<fs, install_pytest, result, test_patch, test_files, thread, probe,
                   pytest_success, pytest_message, exit_codes, now, stage_start, checks,
                   logs, mainVars, auxVars>>

\* The script's own check_cmd tries `python -m pytest` only, where the function's
\* also tries python3: it can answer 1 where the function's probe answers 0.
TestCheckOutcomes(c) == ProbeOutcomes(c) \cup {"1"}

\* "Checking pytest before installation": the exit code is only printed.
TestCheckBefore ==
    /\ pc.at = "t_check"
    /\ \E outcome \in TestCheckOutcomes(container) :
         /\ ops' = Append(ops, Op("exec_run", container, "pytest --version", outcome))
         /\ IF outcome = "APIError"
            THEN Raise("APIError")
            ELSE Goto(0, "pytest") /\ UNCHANGED exc
    /\ UNCHANGED <<fs, install_pytest, result, test_patch, test_files, container, thread,
                   probe, pytest_success, pytest_message, exit_codes, now, stage_start,
                   containers, pytest_in, checks, logs, mainVars, auxVars>>

\* `if success:` after the first call and `if success2:` after the second.
TestAfterInstall ==
    /\ pc.at = "pytest_done"
    /\ Goto(0, IF pytest_success /\ Calls = 1 THEN "t_verify" ELSE "t_finally")
    /\ UNCHANGED <<fs, install_pytest, result, test_patch, test_files, container, exc,
                   thread, probe, pytest_success, pytest_message, exit_codes, now,
                   stage_start, containers, pytest_in, ops, checks, logs, mainVars, auxVars>>

\* "Verifying pytest installation", then the second call.
TestVerify ==
    /\ pc.at = "t_verify"
    /\ \E outcome \in TestCheckOutcomes(container) :
         /\ ops' = Append(ops, Op("exec_run", container, "pytest --version", outcome))
         /\ CASE outcome = "0" -> Goto(0, "pytest") /\ UNCHANGED exc
              [] outcome = "1" -> Goto(0, "t_finally") /\ UNCHANGED exc
              [] outcome = "APIError" -> Raise("APIError")
    /\ UNCHANGED <<fs, install_pytest, result, test_patch, test_files, container, thread,
                   probe, pytest_success, pytest_message, exit_codes, now, stage_start,
                   containers, pytest_in, checks, logs, mainVars, auxVars>>

\* except Exception as e: print; return False.
TestExcept ==
    /\ pc.at = "except"
    /\ exc' = None
    /\ Goto(0, "t_finally")
    /\ UNCHANGED <<fs, install_pytest, result, test_patch, test_files, container, thread,
                   probe, pytest_success, pytest_message, exit_codes, now, stage_start,
                   containers, pytest_in, ops, checks, logs, mainVars, auxVars>>

\* finally: if container: try: container.stop(timeout=5); container.remove()
\* except: pass  (one try block for both calls).
TestCleanup ==
    /\ pc.at = "t_finally"
    /\ IF container = 0
       THEN UNCHANGED <<containers, ops>>
       ELSE \E outcome \in {"ok", "stop_raises", "remove_raises"} :
              CASE outcome = "ok" ->
                     /\ containers' = [containers EXCEPT ![container] = "removed"]
                     /\ ops' = ops \o <<Op("stop", container, "", "ok"),
                                        Op("remove", container, "", "ok")>>
                [] outcome = "stop_raises" ->
                     /\ ops' = Append(ops, Op("stop", container, "", "APIError"))
                     /\ UNCHANGED containers
                [] outcome = "remove_raises" ->
                     /\ containers' = StopEffect(container)
                     /\ ops' = ops \o <<Op("stop", container, "", "ok"),
                                        Op("remove", container, "", "APIError")>>
    /\ Goto(0, "t_returned")
    /\ UNCHANGED <<fs, install_pytest, result, test_patch, test_files, container, exc,
                   thread, probe, pytest_success, pytest_message, exit_codes, now,
                   stage_start, pytest_in, checks, logs, mainVars, auxVars>>

InstallNext ==
    \/ TestRun \/ TestCheckBefore \/ PytestProbe \/ InstallStart \/ RunCommand
    \/ InstallJoin \/ InstallVerify \/ TestAfterInstall \/ TestVerify \/ TestExcept
    \/ TestCleanup

SpecInstall == InstallInit /\ [][InstallNext]_vars

\* ---------------------------------------------------------------------------
\* extract_test_files_from_patch on its own.
\* ---------------------------------------------------------------------------

MaxLines == 2

CapTestPy == <<"T","e","s","t",".","p","y">>
SpacedTestPy == <<"d"," ","t","e","s","t",".","p","y">>
Paths == {TestPy, ModPy, CapTestPy, SpacedTestPy}

\* The lines a test_patch is made of here: headers of unchanged paths, of a
\* rename to and from a test file, and lines that are no header.
PatchLines ==
    {Header(p, p) : p \in Paths}
    \cup {Header(ModPy, TestPy), Header(TestPy, ModPy)}
    \cup {<<"+","x">>, <<"+","+","+"," ","b","/">> \o TestPy, <<>>}

\* '\n'.join(lines)
RECURSIVE JoinLines(_)
JoinLines(lines) ==
    IF lines = <<>> THEN <<>>
    ELSE IF Len(lines) = 1 THEN lines[1]
    ELSE lines[1] \o <<NL>> \o JoinLines(Tail(lines))

ExtractPatches ==
    {JoinLines(ls) : ls \in UNION {[1..n -> PatchLines] : n \in 0..MaxLines}}

\* The state before a call of extract_test_files_from_patch(test_patch).
ExtractInit ==
    /\ fs = [dir |-> TRUE, json |-> TRUE, loads |-> TRUE, test_patch |-> PatchTest]
    /\ install_pytest = FALSE
    /\ pc = [stage |-> 0, at |-> "extract"]
    /\ result = InitialResult
    /\ test_patch \in ExtractPatches
    /\ test_files = <<>>
    /\ container = 0
    /\ exc = None
    /\ thread = NoThread
    /\ probe = None
    /\ pytest_success = FALSE
    /\ pytest_message = None
    /\ exit_codes = <<>>
    /\ now = 0
    /\ stage_start = 0
    /\ containers = [c \in ContainerIds |-> "absent"]
    /\ pytest_in = [c \in {0} \cup ContainerIds |-> FALSE]
    /\ ops = <<>>
    /\ checks = <<>>
    /\ logs = [f \in LogFiles |-> "absent"]
    /\ MainIdle
    /\ AuxIdle

\* test_files = extract_test_files_from_patch(test_patch)
ExtractCall ==
    /\ pc.at = "extract"
    /\ test_files' = extract_test_files_from_patch(test_patch)
    /\ pc' = [stage |-> 0, at |-> "extracted"]
    /\ UNCHANGED <<fs, install_pytest, result, test_patch, container, exc, thread, probe,
                   pytest_success, pytest_message, exit_codes, now, stage_start,
                   containers, pytest_in, ops, checks, logs, mainVars, auxVars>>

ExtractNext == ExtractCall

SpecExtract == ExtractInit /\ [][ExtractNext]_vars

\* ---------------------------------------------------------------------------
\* write_patch_to_container on its own: the archive it builds and what the
\* container holds after the upload.
\* ---------------------------------------------------------------------------

MaxText == 2

\* A character that UTF-8 encodes in two bytes (U+00E9).
EAcute == "U+00E9"
TextChars == {"a", EAcute, NL}
Texts == UNION {[1..n -> TextChars] : n \in 0..MaxText}

\* str.encode('utf-8')
utf8(c) == IF c = EAcute THEN <<195, 169>> ELSE IF c = NL THEN <<10>> ELSE <<97>>
RECURSIVE encode(_)
encode(text) == IF text = <<>> THEN <<>> ELSE utf8(Head(text)) \o encode(Tail(text))

Slash == "/"
TmpPatch == <<"/","t","m","p","/","t">>
RootPatch == <<"/","t">>
BarePatch == <<"t">>
DestPaths == {TmpPatch, RootPatch, BarePatch}

\* os.path.split: the index of the last '/', 0 when there is none.
LastSlash(path) ==
    IF \E i \in DOMAIN path : path[i] = Slash
    THEN CHOOSE i \in DOMAIN path :
            /\ path[i] = Slash
            /\ \A j \in DOMAIN path : path[j] = Slash => j <= i
    ELSE 0
RECURSIVE RStripSlash(_)
RStripSlash(path) ==
    IF path # <<>> /\ path[Len(path)] = Slash
    THEN RStripSlash(SubSeq(path, 1, Len(path) - 1))
    ELSE path
basename(path) == SubSeq(path, LastSlash(path) + 1, Len(path))
dirname(path) ==
    LET head == SubSeq(path, 1, LastSlash(path))
    IN  IF RStripSlash(head) = <<>> THEN head ELSE RStripSlash(head)

\* The engine's path of an archive member extracted into directory dir.
MemberPath(dir, name) ==
    IF dir[Len(dir)] = Slash THEN dir \o name ELSE dir \o <<Slash>> \o name
ContainerFiles == {TmpPatch, RootPatch}
NoFile == [exists |-> FALSE, data |-> <<>>]
StaleFile == [exists |-> TRUE, data |-> <<97>>]

\* TarFile.addfile(tarinfo, fileobj): one more member, holding tarinfo.size
\* bytes read from fileobj.
addfile(tar, tarinfo, bytes) ==
    Append(tar, [name |-> tarinfo.name, size |-> tarinfo.size,
                 data |-> SubSeq(bytes, 1, tarinfo.size)])

\* container.put_archive(dest_dir, tar_stream) when the engine accepts it:
\* every member is written under dest_dir.
RECURSIVE put_archive(_, _, _)
put_archive(fsys, dest_dir, tar) ==
    IF tar = <<>> THEN fsys
    ELSE put_archive([fsys EXCEPT ![MemberPath(dest_dir, Head(tar).name)] =
                                      [exists |-> TRUE, data |-> Head(tar).data]],
                     dest_dir, Tail(tar))

\* The state at a call of write_patch_to_container(container, patch_content, dest_path).
PatchInit ==
    /\ EvalIdle
    /\ MainIdle
    /\ wpc = "called"
    /\ patch_content \in Texts
    /\ dest_path \in DestPaths
    /\ tar_stream = <<>>
    /\ container_files \in [ContainerFiles -> {NoFile, StaleFile}]
    /\ clock = 0
    /\ names = {}
    /\ workers = <<>>
    /\ flow = NoFlow
    /\ csv = <<>>

\* Mutant: tarinfo.size = len(patch_content), characters instead of bytes.
AddFile_SizeInCharacters ==
    /\ wpc = "called"
    /\ LET patch_bytes == encode(patch_content)
           tarinfo == [name |-> basename(dest_path), size |-> Len(patch_content)]
       IN  tar_stream' = addfile(tar_stream, tarinfo, patch_bytes)
    /\ wpc' = "archived"
    /\ UNCHANGED <<patch_content, dest_path, container_files, clock, names, workers, flow, csv, evalVars, mainVars>>

\* The archive is built in memory: one member named after the destination,
\* sized and filled with the encoded text.
AddFile ==
    /\ wpc = "called"
    /\ LET patch_bytes == encode(patch_content)
           tarinfo == [name |-> basename(dest_path), size |-> Len(patch_bytes)]
       IN  tar_stream' = addfile(tar_stream, tarinfo, patch_bytes)
    /\ wpc' = "archived"
    /\ UNCHANGED <<patch_content, dest_path, container_files, clock, names, workers, flow, csv, evalVars, mainVars>>

\* The upload: the engine accepts the archive, answers without success
\* (RuntimeError), or fails (APIError).
PutArchive ==
    /\ wpc = "archived"
    /\ LET dest_dir == IF dirname(dest_path) = <<>> THEN <<Slash>> ELSE dirname(dest_path)
       IN  \E success \in {"True", "False", "APIError"} :
               IF success = "True"
               THEN /\ container_files' = put_archive(container_files, dest_dir, tar_stream)
                    /\ wpc' = "returned"
               ELSE /\ container_files' = container_files
                    /\ wpc' = IF success = "False" THEN "RuntimeError" ELSE "APIError"
    /\ UNCHANGED <<patch_content, dest_path, tar_stream, clock, names, workers, flow, csv, evalVars, mainVars>>

PatchNext == AddFile \/ PutArchive

SpecPatch == PatchInit /\ [][PatchNext]_vars

\* ---------------------------------------------------------------------------
\* The container names of two evaluations that share the engine: two workers of
\* a pool, or one evaluation after the other.
\* ---------------------------------------------------------------------------

MaxClock == 3

Workers == {1, 2}
SlashId == <<"a", "/", "b">>
UnderId == <<"a", "_", "b">>
PlainId == <<"c">>
InstanceIds == {SlashId, UnderId, PlainId}

\* instance_id.replace('/', '_')
Sanitize(instance_id) ==
    [i \in DOMAIN instance_id |-> IF instance_id[i] = "/" THEN "_" ELSE instance_id[i]]
\* str(int(time.time())), for the seconds the clock reaches here.
Digits(t) == <<(<<"0", "1", "2", "3", "4", "5", "6", "7", "8", "9">>)[t + 1]>>
\* f"eval_{instance_id.replace('/', '_')}_{int(time.time())}"
ContainerName(instance_id, t) ==
    <<"e", "v", "a", "l", "_">> \o Sanitize(instance_id) \o <<"_">> \o Digits(t)

\* Worker 1 is about to evaluate; worker 2 starts at the same time (a second
\* worker of the pool) or waits for worker 1 to return (the next evaluation).
NamesInit ==
    /\ EvalIdle
    /\ MainIdle
    /\ wpc = "idle"
    /\ patch_content = <<>>
    /\ dest_path = <<>>
    /\ tar_stream = <<>>
    /\ container_files = <<>>
    /\ clock = 0
    /\ names = {}
    /\ flow = NoFlow
    /\ csv = <<>>
    /\ \E id1 \in InstanceIds, id2 \in InstanceIds, queued \in BOOLEAN :
           workers = [w \in Workers |->
                        [instance_id |-> IF w = 1 THEN id1 ELSE id2,
                         queued |-> w = 2 /\ queued,
                         at |-> IF w = 2 /\ queued THEN "queued" ELSE "start",
                         stage |-> 1,
                         container_name |-> <<>>,
                         wake |-> 0,
                         conflict |-> FALSE]]

\* A second of wall-clock time passes.
Tick ==
    /\ clock < MaxClock
    /\ clock' = clock + 1
    /\ UNCHANGED <<wpc, patch_content, dest_path, tar_stream, container_files, names, workers,
                   flow, csv, evalVars, mainVars>>

\* The sequential loop calls the next evaluation when the previous returned.
StartQueued(w) ==
    /\ workers[w].at = "queued"
    /\ \A v \in Workers \ {w} : workers[v].at = "done"
    /\ workers' = [workers EXCEPT ![w].at = "start"]
    /\ UNCHANGED <<wpc, patch_content, dest_path, tar_stream, container_files, clock, names,
                   flow, csv, evalVars, mainVars>>

\* container_name is computed once, before stage 1.
TakeName(w) ==
    /\ workers[w].at = "start"
    /\ workers' = [workers EXCEPT ![w].container_name = ContainerName(workers[w].instance_id, clock),
                                  ![w].at = "run"]
    /\ UNCHANGED <<wpc, patch_content, dest_path, tar_stream, container_files, clock, names,
                   flow, csv, evalVars, mainVars>>

\* client.containers.run(name=container_name) of a stage, followed by
\* time.sleep(1). The engine refuses a name it holds (409 Conflict), and the
\* evaluation ends in the except clause without a container.
RunNamed(w) ==
    /\ workers[w].at = "run"
    /\ IF workers[w].container_name \in names
       THEN /\ workers' = [workers EXCEPT ![w].conflict = TRUE, ![w].at = "done"]
            /\ names' = names
       ELSE /\ workers' = [workers EXCEPT ![w].at = "running", ![w].wake = clock + 1]
            /\ names' = names \cup {workers[w].container_name}
    /\ UNCHANGED <<wpc, patch_content, dest_path, tar_stream, container_files, clock,
                   flow, csv, evalVars, mainVars>>

\* The stage is over (no sooner than the sleep) and its container is stopped
\* and removed, which frees the name; stage 2 follows stage 1.
RemoveNamed(w) ==
    /\ workers[w].at = "running"
    /\ clock >= workers[w].wake
    /\ names' = names \ {workers[w].container_name}
    /\ workers' = [workers EXCEPT ![w].at = IF workers[w].stage = 1 THEN "run" ELSE "done",
                                  ![w].stage = 2]
    /\ UNCHANGED <<wpc, patch_content, dest_path, tar_stream, container_files, clock,
                   flow, csv, evalVars, mainVars>>

NamesNext ==
    \/ Tick
    \/ \E w \in Workers : StartQueued(w)
    \/ \E w \in Workers : TakeName(w)
    \/ \E w \in Workers : RunNamed(w)
    \/ \E w \in Workers : RemoveNamed(w)

SpecNames == NamesInit /\ [][NamesNext]_vars

\* ---------------------------------------------------------------------------
\* The setup workflow graph of define_workflow(max_trials).
\* ---------------------------------------------------------------------------

MaxTrials == 3
MaxRounds == 4

\* graph.add_edge(source, target) for the unconditional edges.
Edge ==
    [START |-> "locate_related_file", locate_related_file |-> "select_base_image",
     select_base_image |-> "start_bash_session", start_bash_session |-> "setup",
     setup |-> "verify", save_result |-> "END"]

\* The conditional edge after verify: the lambda and its path map.
route(x) ==
    IF x.success \/ x.trials = x.max_trials \/ x.exception THEN "save_result" ELSE "setup"

\* The state a run of the compiled graph starts from.
WorkflowInit ==
    /\ EvalIdle
    /\ MainIdle
    /\ wpc = "idle"
    /\ patch_content = <<>>
    /\ dest_path = <<>>
    /\ tar_stream = <<>>
    /\ container_files = <<>>
    /\ clock = 0
    /\ names = {}
    /\ workers = <<>>
    /\ csv = <<>>
    /\ \E m \in 0..MaxTrials :
           flow = [node |-> "START", max_trials |-> m, trials |-> 0, success |-> FALSE,
                   exception |-> FALSE, runs |-> 0, saved |-> 0]

FlowFrame ==
    UNCHANGED <<wpc, patch_content, dest_path, tar_stream, container_files, clock, names,
                workers, csv, evalVars, mainVars>>

\* START is left along its edge.
Enter ==
    /\ flow.node = "START"
    /\ flow' = [flow EXCEPT !.node = Edge[flow.node]]
    /\ FlowFrame

\* A node before the verification runs (its exception, if any, is recorded in
\* the state) and is left along its edge; setup begins a setup/verify pair.
AgentNode ==
    /\ flow.node \in {"locate_related_file", "select_base_image", "start_bash_session", "setup"}
    /\ \E raised \in BOOLEAN :
         flow' = [flow EXCEPT !.node = Edge[flow.node],
                              !.exception = flow.exception \/ raised,
                              !.runs = IF flow.node = "setup" THEN @ + 1 ELSE @]
    /\ FlowFrame

\* verify: one more trial, which succeeds, fails or records an exception.
Verify ==
    /\ flow.node = "verify"
    /\ flow.trials < MaxRounds
    /\ \E outcome \in {"success", "failure", "exception"} :
         flow' = [flow EXCEPT !.node = "route",
                              !.trials = @ + 1,
                              !.success = (outcome = "success" /\ ~flow.exception),
                              !.exception = flow.exception \/ outcome = "exception"]
    /\ FlowFrame

\* The conditional edge is taken.
Route ==
    /\ flow.node = "route"
    /\ flow' = [flow EXCEPT !.node = route(flow)]
    /\ FlowFrame

\* save_result, and its edge to END.
SaveResult ==
    /\ flow.node = "save_result"
    /\ flow' = [flow EXCEPT !.node = Edge[flow.node], !.saved = @ + 1]
    /\ FlowFrame

WorkflowNext == Enter \/ AgentNode \/ Verify \/ Route \/ SaveResult

SpecWorkflow == WorkflowInit /\ [][WorkflowNext]_vars

\* ---------------------------------------------------------------------------
\* analyze_results.export_csv over the record of an evaluation.
\* ---------------------------------------------------------------------------

\* detail.get(key, default)
Get(detail, key, default) == IF key \in DOMAIN detail THEN detail[key] ELSE default
\* What csv.DictWriter writes for a boolean: str(value).
PyStr(b) == IF b THEN "True" ELSE "False"

\* The row export_csv builds from one record of results['details'].
CsvRow(detail) ==
    [status |-> detail["status"],
     f2p_pass |-> PyStr(detail["f2p_pass"]),
     env_pass |-> PyStr(detail["env_pass"]),
     test_only_all_passed |-> PyStr(Get(detail, "test_only_all_passed", FALSE)),
     both_patches_all_passed |-> PyStr(Get(detail, "both_patches_all_passed", FALSE)),
     test_only_time |-> Get(detail, "test_only_time", 0),
     both_patches_time |-> Get(detail, "both_patches_time", 0),
     message |-> Get(detail, "message", "")]

\* export_csv on the report whose details hold the record the evaluation returned.
ExportCsv ==
    /\ pc.at = "returned"
    /\ csv = <<>>
    /\ csv' = <<CsvRow(result)>>
    /\ UNCHANGED <<wpc, patch_content, dest_path, tar_stream, container_files, clock, names,
                   workers, flow, evalVars, mainVars>>

CsvNext == EvalNext \/ ExportCsv

SpecCsv == Init /\ [][CsvNext]_vars

\* ---------------------------------------------------------------------------
\* The two-stage protocol, read off the record of engine calls.
\* ---------------------------------------------------------------------------

\* The i-th engine call was issued at position `at` of stage `stage`.
IsOp(i, stage, at) == ops[i].stage = stage /\ ops[i].at = at

\* The i-th engine call is the git apply of `patch` in `stage` that exited with `code`.
IsApply(i, stage, at, patch, code) ==
    /\ IsOp(i, stage, at)
    /\ ops[i].op = "exec_run"
    /\ ops[i].arg = <<"git apply", patch>>
    /\ ops[i].outcome = code

\* The i-th engine call delivered /tmp/<patch> into the container of `stage`.
IsPut(i, stage, patch) ==
    /\ ops[i].stage = stage
    /\ ops[i].op = "put_archive"
    /\ ops[i].arg = patch

\* The i-th engine call started the test command of `stage`.
IsTest(i, stage) == IsOp(i, stage, "test") /\ ops[i].op = "exec_run"

\* C11: once git apply of the test patch exited non-zero in stage 1, the status is
\* test_patch_apply_failed, both_patches_time is still 0, test_only.log holds the
\* apply output, and no test command has been or will be started.
C11_Stage1ApplyFailure ==
    (\E i \in DOMAIN ops : IsApply(i, 1, "apply_test", "/tmp/test.patch", "1")) =>
        /\ result.status = "test_patch_apply_failed"
        /\ result.both_patches_time = 0
        /\ logs["test_only.log"] = "apply_failed"
        /\ \A j \in DOMAIN ops : ~IsTest(j, 1) /\ ~IsTest(j, 2)

C11_Witness ==
    /\ Returned
    /\ \E i \in DOMAIN ops : IsApply(i, 1, "apply_test", "/tmp/test.patch", "1")
    /\ logs["test_only.log"] = "apply_failed"

\* C12: no engine call of stage 1, and none on the stage-1 container, delivers or
\* applies the fix patch; a stage-1 test command is preceded by the delivery of the
\* test patch and by its git apply with exit code 0.
C12_Stage1OnlyTestPatch ==
    \A j \in DOMAIN ops :
        /\ (ops[j].stage = 1 \/ ops[j].c = 1) =>
              /\ ops[j].at \notin {"write_fix", "apply_fix"}
              /\ ops[j].op = "put_archive" => ops[j].arg = "/tmp/test.patch"
              /\ ops[j].at = "apply_test" => ops[j].arg = <<"git apply", "/tmp/test.patch">>
        /\ IsTest(j, 1) =>
              \E h, i \in 1..(j - 1) :
                  /\ h < i
                  /\ IsPut(h, 1, "/tmp/test.patch") /\ ops[h].outcome = "ok"
                  /\ IsApply(i, 1, "apply_test", "/tmp/test.patch", "0")

C12_Witness ==
    /\ \E j \in DOMAIN ops : IsTest(j, 1)
    /\ result.test_only_passed
    /\ pc.stage = 1

\* C13: in stage 2 the test patch is delivered only after the fix patch was applied
\* with exit code 0, the test command (the one stage 1 ran) starts only after both
\* were applied with exit code 0, a failed fix apply gives fix_patch_apply_failed
\* with no delivery of the test patch, a failed test apply gives
\* test_patch_apply_failed_stage2, and neither is followed by a test command.
C13_Stage2Order ==
    /\ \A j \in DOMAIN ops :
          /\ IsPut(j, 2, "/tmp/test.patch") =>
                \E i \in 1..(j - 1) : IsApply(i, 2, "apply_fix", "/tmp/fix.patch", "0")
          /\ IsTest(j, 2) =>
                /\ \E i, k \in 1..(j - 1) :
                      /\ i < k
                      /\ IsApply(i, 2, "apply_fix", "/tmp/fix.patch", "0")
                      /\ IsApply(k, 2, "apply_test", "/tmp/test.patch", "0")
                /\ ops[j].arg = test_cmd
                /\ \A h \in DOMAIN ops : IsTest(h, 1) => ops[h].arg = ops[j].arg
    /\ (\E i \in DOMAIN ops : IsApply(i, 2, "apply_fix", "/tmp/fix.patch", "1")) =>
          /\ result.status = "fix_patch_apply_failed"
          /\ \A j \in DOMAIN ops : ~IsPut(j, 2, "/tmp/test.patch") /\ ~IsTest(j, 2)
    /\ (\E i \in DOMAIN ops : IsApply(i, 2, "apply_test", "/tmp/test.patch", "1")) =>
          /\ result.status = "test_patch_apply_failed_stage2"
          /\ \A j \in DOMAIN ops : ~IsTest(j, 2)

C13_Witness ==
    /\ Returned
    /\ \E j \in DOMAIN ops : IsTest(j, 2)
    /\ \E h \in DOMAIN ops : IsTest(h, 1)
    /\ result.status = "f2p_passed"

\* The statuses of the errors a stage can end with.
Stage1Errors == {"pytest_install_failed", "test_patch_apply_failed", "test_only_timeout"}
Stage2Errors == {"pytest_install_failed_stage2", "fix_patch_apply_failed",
                 "test_patch_apply_failed_stage2", "both_patches_timeout"}

\* C14: once a stage error has set the status, no step changes the status, the only
\* engine calls still issued are stop and remove, and after a stage-1 error no
\* stage-2 container comes into existence.
C14_ErrorsAreTerminal ==
    [][result.status \in Stage1Errors \cup Stage2Errors =>
          /\ result'.status = result.status
          /\ \/ ops' = ops
             \/ /\ Len(ops') = Len(ops) + 1
                /\ ops'[Len(ops')].op \in {"stop", "remove"}
          /\ result.status \in Stage1Errors => containers'[2] = "absent"]_vars

C14_Witness ==
    /\ Returned
    /\ result.status = "pytest_install_failed"
    /\ containers[2] = "absent"
    /\ ops[Len(ops)].op = "remove"

\* C15: the step that finds the test command still running when the bound expires
\* sets status test_only_timeout (stage 1) or both_patches_timeout (stage 2) and
\* writes the stage's log with the timeout marker; from then on the status is that
\* timeout status and both flags are false.
C15_TimeoutStatus ==
    /\ [][(pc.at = "test_join" /\ thread.alive /\ pc' # pc) =>
             /\ result'.status = IF pc.stage = 1 THEN "test_only_timeout"
                                 ELSE "both_patches_timeout"
             /\ logs'[StageLog(pc.stage)] = "timeout"
             /\ exit_codes' = Append(exit_codes, -1)]_vars
    /\ [](\A s \in DOMAIN exit_codes : exit_codes[s] = -1 =>
             /\ result.status = IF s = 1 THEN "test_only_timeout" ELSE "both_patches_timeout"
             /\ ~result.env_pass /\ ~result.f2p_pass
             /\ logs[StageLog(s)] = "timeout")

C15_Witness ==
    /\ Returned
    /\ result.status = "both_patches_timeout"
    /\ logs["both_patches.log"] = "timeout"
    /\ exit_codes = <<1, -1>>

\* ---------------------------------------------------------------------------
\* The bounded executor.
\* ---------------------------------------------------------------------------

\* The caller sits in thread.join(timeout) of exec_run_with_timeout.
Joining == pc.at \in {"install_join", "test_join"}
TimeoutMessages == {"pytest installation timed out", "test execution timed out"}

\* C16: a caller waiting in exec_run_with_timeout always gets past the wait, even
\* when the command never finishes, and when it leaves the wait with the command
\* still running it does so on the TimeoutError path.
C16_JoinBounded ==
    /\ Joining ~> ~Joining
    /\ [][(Joining /\ thread.alive /\ pc' # pc) =>
             IF pc.at = "test_join"
             THEN pc'.at = "finally_stop" /\ result'.message = "test execution timed out"
             ELSE /\ pc'.at = "pytest_done" /\ ~pytest_success'
                  /\ pytest_message' = "pytest installation timed out"]_vars

C16_Witness ==
    /\ thread.alive
    /\ thread.kind = "install"
    /\ pc.at = "finally_stop"
    /\ result.message = "pytest installation timed out"

\* C17: whenever the evaluating thread can take no further step it has returned
\* a result record with a status.
C17_TerminatesWithResult ==
    (~ENABLED EvalProgress) => (Returned /\ result.status # "unknown")

\* Every evaluation comes to an end when the calling thread is scheduled, whether
\* or not a command ever finishes.
EvaluationEnds == <>(pc.at \in {"returned", "raised"})

\* C18: the step that times out leaves the command, the containers and the record
\* of engine calls as they are; a running command stops running only by finishing;
\* after a timeout the only engine calls are stop and remove of that container.
C18_NoCancellation ==
    /\ [][(Joining /\ thread.alive /\ pc' # pc) =>
             thread' = thread /\ containers' = containers /\ ops' = ops]_vars
    /\ [][(thread.alive /\ thread' # thread) =>
             thread' = [thread EXCEPT !.alive = FALSE, !.done = TRUE,
                                      !.exit_code = thread'.exit_code,
                                      !.exception = thread'.exception]]_vars
    /\ [][((result.message \in TimeoutMessages \/ pytest_message \in TimeoutMessages)
            /\ ops' # ops) =>
             /\ Len(ops') = Len(ops) + 1
             /\ ops'[Len(ops')].op \in {"stop", "remove"}
             /\ ops'[Len(ops')].c = thread.c]_vars

C18_Witness ==
    /\ thread.alive
    /\ thread.kind = "test"
    /\ result.status = "test_only_timeout"
    /\ pc.at = "finally_remove"
    /\ ops[Len(ops)].op = "stop"

\* ---------------------------------------------------------------------------
\* The aggregate in parallel mode.
\* ---------------------------------------------------------------------------

InParallel == args.output_dir_exists /\ args.parallel > 1 /\ mpc # "start"
Collected == {k \in 1..Len(futures) : futures[k].state = "collected"}

\* C20: in parallel mode a worker's step leaves the aggregate untouched; the
\* aggregate changes only when the coordinator takes one completed future, by one
\* details entry; and every counter equals the number of collected results of its
\* kind, so no update is lost whatever the order of workers and coordinator.
C20_OnlyCoordinatorUpdates ==
    /\ [][(mpc = "as_completed" /\
             \E k \in 1..Len(futures) :
                futures[k].state = "pending" /\ futures'[k].state = "done")
          => results' = results]_vars
    /\ [][(mpc = "as_completed" /\ results' # results) =>
             /\ \E k \in 1..Len(futures) :
                   /\ futures[k].state = "done"
                   /\ futures' = [futures EXCEPT ![k].state = "collected"]
                   /\ results'.details =
                         Append(results.details,
                                Detail(instances_to_eval[k],
                                       IF futures[k].outcome = Raised
                                       THEN Outcome("error", FALSE, FALSE)
                                       ELSE futures[k].outcome))]_vars
    /\ [](InParallel =>
             /\ Len(results.details) = Cardinality(Collected)
             /\ results.f2p_passed = Cardinality({k \in Collected : futures[k].outcome.f2p_pass})
             /\ results.env_passed =
                   Cardinality({k \in Collected : ~futures[k].outcome.f2p_pass
                                                   /\ futures[k].outcome.env_pass})
             /\ results.failed =
                   Cardinality({k \in Collected : ~futures[k].outcome.f2p_pass
                                                   /\ ~futures[k].outcome.env_pass})
             /\ results.error =
                   Cardinality({k \in Collected : futures[k].outcome.status
                                                     \in {"error", "raised"}})
             /\ results.no_image =
                   Cardinality({k \in Collected : futures[k].outcome.status = "no_image"}))

C20_Witness ==
    /\ InParallel
    /\ mpc = "exited"
    /\ Cardinality(Collected) = 2
    /\ results.f2p_passed = 1
    /\ results.error = 1

\* ---------------------------------------------------------------------------
\* The bootstrap called twice.
\* ---------------------------------------------------------------------------

\* The i-th engine call is the probe that opens the second call of
\* install_pytest_in_container.
SecondProbe(i) ==
    /\ ops[i].at = "pytest"
    /\ \E j \in 1..(i - 1) : ops[j].at = "pytest" /\ ops[j].c = ops[i].c

\* C19: when install_pytest_in_container is called again on the container of a
\* first call that succeeded, and the engine answers its probe, the second call
\* returns (True, "pytest already installed") and issues neither the install
\* command nor the verification.
C19_Idempotent ==
    \A i \in DOMAIN ops :
        (SecondProbe(i) /\ ops[i].outcome # "APIError") =>
            /\ ops[i].outcome = "0"
            /\ pytest_success
            /\ pytest_message = "pytest already installed"
            /\ \A k \in DOMAIN ops : k > i => ops[k].at \notin {"install", "verify"}

C19_Witness ==
    /\ pc.at = "t_returned"
    /\ Calls = 2
    /\ \E k \in DOMAIN ops : ops[k].at = "install"
    /\ pytest_success
    /\ pytest_message = "pytest already installed"

\* ---------------------------------------------------------------------------
\* The aggregate at the end of a run.
\* ---------------------------------------------------------------------------

\* The loop body of main applied to the instances in submission order: what a
\* sequential pass over the given per-instance outcomes accumulates.
RECURSIVE SeqTally(_, _, _, _)
SeqTally(res, insts, outs, k) ==
    IF k > Len(insts) THEN res
    ELSE SeqTally(IF outs[k] = Raised THEN RecordException(res, insts[k])
                  ELSE UpdateCounts(res, insts[k], outs[k]),
                  insts, outs, k + 1)

Counters(res) == <<res.f2p_passed, res.env_passed, res.failed, res.no_image, res.error>>
Occurrences(seq, x) == Cardinality({i \in DOMAIN seq : seq[i] = x})
IsPermutation(a, b) ==
    /\ Len(a) = Len(b)
    /\ \A i \in DOMAIN a : Occurrences(a, a[i]) = Occurrences(b, a[i])

\* main is past the evaluation loop of a run that got as far as evaluating.
Evaluated == args.output_dir_exists /\ mpc \in {"report", "return", "exited"}
OutcomeOf(d) == Outcome(d.status, d.env_pass, d.f2p_pass)

\* C21: after the parallel loop the counters, and then the exit code, are those of
\* a pass in submission order over the same outcomes, whatever the completion
\* order was, and the details are a permutation of that pass's details; a
\* sequential run accumulates exactly that pass.
C21_OrderIndependent ==
    LET start == [NoResults EXCEPT !.total = Len(instances_to_eval)]
    IN  /\ (Evaluated /\ args.parallel > 1) =>
              LET ref == SeqTally(start, instances_to_eval,
                                  [k \in DOMAIN futures |-> futures[k].outcome], 1)
              IN  /\ Counters(results) = Counters(ref)
                  /\ IsPermutation(results.details, ref.details)
                  /\ mpc = "exited" => exit_code = ExitCode(ref)
        /\ (Evaluated /\ args.parallel = 1) =>
              LET ref == SeqTally(start, instances_to_eval,
                                  [k \in DOMAIN results.details |->
                                     OutcomeOf(results.details[k])], 1)
              IN  /\ results = ref
                  /\ mpc = "exited" => exit_code = ExitCode(ref)

\* Two workers completed in the reverse of submission order.
C21_Witness ==
    /\ Evaluated /\ args.parallel > 1 /\ mpc = "exited"
    /\ Len(results.details) = 2
    /\ results.details[1].instance_id = instances_to_eval[2]
    /\ results.details[1].status = "f2p_passed"
    /\ results.details[2].status = "error"

\* C22: at most one report is ever written, it holds the whole aggregate of all
\* dispatched instances, and a run that started evaluating ends with one written.
C22_ReportExactlyOnce ==
    /\ Len(report) <= 1
    /\ Len(report) = 1 =>
          /\ mpc \in {"return", "exited"}
          /\ report[1].details = results.details
          /\ Len(report[1].details) = Len(instances_to_eval)
    /\ (Terminated /\ args.output_dir_exists) => Len(report) = 1

\* C23: when a run that started evaluating has ended, the instance ids of the
\* details list are the resolved instances, each once.
C23_OneRecordPerInstance ==
    (Terminated /\ args.output_dir_exists) =>
        IsPermutation([k \in DOMAIN results.details |-> results.details[k].instance_id],
                      instances_to_eval)

\* C24: a returned record has one of the sixteen statuses, never 'unknown'.
C24_StatusFromFixedSet ==
    Returned => result.status \in {"f2p_passed", "env_passed"} \cup FailureStatuses

C24_Witness ==
    /\ Returned
    /\ result.status = "failed"
    /\ result.test_only_passed /\ ~result.both_patches_passed

\* ---------------------------------------------------------------------------
\* Failed uploads and stage logs.
\* ---------------------------------------------------------------------------

\* The i-th engine call is an upload for which put_archive returned False.
UploadRefused(i) == ops[i].op = "put_archive" /\ ops[i].outcome = "False"

\* C28: after an upload that reported failure the RuntimeError is on its way to
\* the generic handler or the status is error; no git apply and no test command
\* follows, only stop and remove.
C28_UploadFailureIsError ==
    \A i \in DOMAIN ops :
        UploadRefused(i) =>
            /\ \/ pc.at = "except" /\ exc = "RuntimeError"
               \/ result.status = "error" /\ logs["error.log"] = "RuntimeError"
            /\ \A j \in DOMAIN ops : j > i => ops[j].op \in {"stop", "remove"}

C28_Witness ==
    /\ Returned
    /\ result.status = "error"
    /\ \E i \in DOMAIN ops : UploadRefused(i) /\ ops[i].stage = 2 /\ ops[i].arg = "/tmp/fix.patch"

\* C30: when the evaluation has returned, the log of every stage whose test
\* command was started exists.
C30_StageLogAlways ==
    Returned =>
        \A s \in {1, 2} :
            (\E j \in DOMAIN ops : IsTest(j, s)) => logs[StageLog(s)] # "absent"

\* ---------------------------------------------------------------------------
\* Which paths the extraction returns.
\* ---------------------------------------------------------------------------

\* The (old, new) pairs for which `line` is the header diff --git a/<old> b/<new>.
HeaderOf(line) == {pr \in Paths \X Paths : line = Header(pr[1], pr[2])}
Qualifies(p) == Contains(Lower(p), TestWord) /\ EndsWith(p, DotPy)

\* The qualifying paths of the header lines, in order, reading the old path
\* (side 1) or the new path (side 2) of each header.
RECURSIVE Expected(_, _)
Expected(lines, side) ==
    IF lines = <<>> THEN <<>>
    ELSE LET hs == HeaderOf(Head(lines))
             p == (CHOOSE pr \in hs : TRUE)[side]
         IN  (IF hs # {} /\ Qualifies(p) THEN <<p>> ELSE <<>>)
             \o Expected(Tail(lines), side)

PatchText == IF test_patch = <<>> THEN <<>> ELSE SplitOn(test_patch, NL)
Extracted == pc.at = "extracted"
\* Every header of the patch names the same path twice.
UnchangedPaths ==
    \A i \in DOMAIN PatchText : \A pr \in HeaderOf(PatchText[i]) : pr[1] = pr[2]
\* No header of the patch names a path with white space in it.
NoSpaceInPaths ==
    \A i \in DOMAIN PatchText : \A pr \in HeaderOf(PatchText[i]) :
        \A k \in 1..2 : \A j \in DOMAIN pr[k] : pr[k][j] \notin Whitespace
\* For such patches the result is the qualifying old (a/) paths, in order.
OldPathsExtracted ==
    (Extracted /\ NoSpaceInPaths) => test_files = Expected(PatchText, 1)

\* C25 as claimed: for headers that name one path, the result is the qualifying
\* paths of the header lines, in order and with duplicates.
C25_QualifyingHeaderPaths ==
    (Extracted /\ UnchangedPaths) => test_files = Expected(PatchText, 1)

\* C26: the path tested and returned for a header is its new (b/) path.
C26_NewPath ==
    (Extracted /\ NoSpaceInPaths) => test_files = Expected(PatchText, 2)

\* ---------------------------------------------------------------------------
\* Delivery of a patch into the container.
\* ---------------------------------------------------------------------------

\* Reading UTF-8 bytes back as text.
RECURSIVE decode(_)
decode(bytes) ==
    IF bytes = <<>> THEN <<>>
    ELSE IF Head(bytes) = 97 THEN <<"a">> \o decode(Tail(bytes))
    ELSE IF Head(bytes) = 10 THEN <<NL>> \o decode(Tail(bytes))
    ELSE IF Head(bytes) = 195 /\ Len(bytes) >= 2 /\ bytes[2] = 169
         THEN <<EAcute>> \o decode(Tail(Tail(bytes)))
    ELSE <<"?">>
ByteLength(text) == Len(text) + Cardinality({i \in DOMAIN text : text[i] = EAcute})
\* Where the file is expected in the container.
DeliveredTo == IF dest_path = TmpPatch THEN TmpPatch ELSE RootPatch

\* C27: when write_patch_to_container returns, the archive it uploaded has one
\* member, named the base name of the destination, whose size is the number of
\* UTF-8 bytes of the text, and the destination file in the container (under
\* '/' for a path without directory) reads back as the text.
C27_PatchRoundTrip ==
    wpc = "returned" =>
        /\ Len(tar_stream) = 1
        /\ tar_stream[1].name = <<"t">>
        /\ tar_stream[1].size = ByteLength(patch_content)
        /\ Len(tar_stream[1].data) = tar_stream[1].size
        /\ container_files[DeliveredTo].exists
        /\ container_files[DeliveredTo].data = tar_stream[1].data
        /\ decode(container_files[DeliveredTo].data) = patch_content

C27_Witness ==
    /\ wpc = "returned"
    /\ dest_path = BarePatch
    /\ \E i \in DOMAIN patch_content : patch_content[i] = EAcute
    /\ Len(patch_content) >= 2
    /\ container_files[RootPatch].exists

\* ---------------------------------------------------------------------------
\* Container names of evaluations that share the engine.
\* ---------------------------------------------------------------------------

\* The two evaluations are workers on different instance ids, or one follows
\* the other.
DistinctOrSuccessive ==
    /\ workers # <<>>
    /\ \/ workers[1].instance_id # workers[2].instance_id
       \/ workers[2].queued
Named(w) == workers[w].at \in {"run", "running"}

\* C29: two evaluations on different instance ids, or one after the other on the
\* same id, never use the same container name while both are under way, and no
\* container creation is refused because of a name held by the other.
C29_NamesUnique ==
    DistinctOrSuccessive =>
        /\ \A w \in Workers : ~workers[w].conflict
        /\ (Named(1) /\ Named(2)) => workers[1].container_name # workers[2].container_name

\* ---------------------------------------------------------------------------
\* Flags and status of a record.
\* ---------------------------------------------------------------------------

FlagsAgree(r) ==
    /\ r.status = "f2p_passed" <=> r.f2p_pass
    /\ r.status = "env_passed" <=> (r.env_pass /\ ~r.f2p_pass)
    /\ r.status \notin {"f2p_passed", "env_passed"} => (~r.env_pass /\ ~r.f2p_pass)

\* C31: in every returned record the status is f2p_passed exactly when f2p_pass
\* is true, env_passed exactly when env_pass is true and f2p_pass false, and for
\* every other status both flags are false.
C31_FlagsAgreeWithStatus == Returned => FlagsAgree(result)

C31_Witness ==
    /\ Returned
    /\ result.status = "env_passed"
    /\ result.env_pass
    /\ ~result.f2p_pass

\* In main, counting by flags is counting by status.
CountsByStatus ==
    mpc # "idle" =>
        /\ results.f2p_passed = Cardinality({i \in DOMAIN results.details : results.details[i].status = "f2p_passed"})
        /\ results.env_passed = Cardinality({i \in DOMAIN results.details : results.details[i].status = "env_passed"})
        /\ results.failed = Cardinality({i \in DOMAIN results.details : results.details[i].status \notin {"f2p_passed", "env_passed"}})

\* ---------------------------------------------------------------------------
\* What install_pytest_in_container returns.
\* ---------------------------------------------------------------------------

\* The engine calls of the current stage made at position `at`.
StageOps(at) == {i \in DOMAIN ops : IsOp(i, pc.stage, at)}
InstallFailures ==
    {"pytest installation failed", "pytest installation timed out",
     "pytest installation error", "pytest installation verification failed"}

\* C32: when install_pytest_in_container has returned, it returned success
\* exactly if its first probe exited 0, or the install command exited 0 and the
\* probe after it exited 0; after a first probe that exited 0 no install command
\* was issued; a failure comes back as (False, message); and no exception of the
\* install command or of the verification reaches the caller.
C32_InstallResult ==
    /\ pc.at = "pytest_done" =>
          /\ pytest_success <=>
                \/ \E i \in StageOps("pytest") : ops[i].outcome = "0"
                \/ /\ StageOps("install") # {}
                   /\ thread.done /\ ~thread.exception /\ thread.exit_code = 0
                   /\ \E i \in StageOps("verify") : ops[i].outcome = "0"
          /\ (\E i \in StageOps("pytest") : ops[i].outcome = "0") =>
                StageOps("install") = {} /\ StageOps("verify") = {}
          /\ ~pytest_success => pytest_message \in InstallFailures
    /\ (pc.at = "except" /\ ops # <<>>) => ops[Len(ops)].at \notin {"install", "verify"}

C32_Witness ==
    /\ pc.at = "pytest_done"
    /\ pytest_success
    /\ \E i \in StageOps("verify") : ops[i].outcome = "0"
    /\ \E i \in StageOps("pytest") : ops[i].outcome = "1"

\* ---------------------------------------------------------------------------
\* A failed installation of pytest in a stage.
\* ---------------------------------------------------------------------------

\* The stage the evaluation got to, by its engine calls.
LastStage == IF \E i \in DOMAIN ops : ops[i].stage = 2 THEN 2 ELSE 1
InstallFailedStatus(stage) ==
    IF stage = 1 THEN "pytest_install_failed" ELSE "pytest_install_failed_stage2"

\* C33: when install_pytest_in_container returned a failure in a stage, the
\* evaluation returns with that stage's pytest_install_failed status, nothing was
\* delivered to that stage's container, and the stage's log holds the failure;
\* with install_pytest off no probe, install or verification command is issued.
C33_InstallFailureStatus ==
    /\ (Returned /\ install_pytest /\ pytest_message \in InstallFailures) =>
          /\ result.status = InstallFailedStatus(LastStage)
          /\ \A i \in DOMAIN ops : ops[i].stage = LastStage => ops[i].op # "put_archive"
          /\ logs[StageLog(LastStage)] = "install_failed"
    /\ ~install_pytest =>
          \A i \in DOMAIN ops : ops[i].at \notin {"pytest", "install", "verify"}

C33_Witness ==
    /\ Returned
    /\ pytest_message \in InstallFailures
    /\ result.status = "pytest_install_failed_stage2"
    /\ \E i \in DOMAIN ops : ops[i].stage = 1 /\ ops[i].op = "put_archive"

\* ---------------------------------------------------------------------------
\* What exec_run_with_timeout hands to its caller.
\* ---------------------------------------------------------------------------

\* The caller leaves thread.join(timeout) with the command thread ended.
JoinedEnded == Joining /\ ~thread.alive /\ pc' # pc

\* C34: when the command ended within the bound, the caller of
\* exec_run_with_timeout gets the exit code the command produced (the test
\* stage records that code and the pass flag computed from it, the installation
\* goes on to verify exactly on code 0); when the command raised, the caller gets
\* the exception and no timeout is reported.
C34_ExecResult ==
    [][JoinedEnded =>
         IF thread.exception
         THEN /\ result'.message \notin TimeoutMessages
              /\ pytest_message' \notin TimeoutMessages
              /\ exit_codes' = exit_codes
              /\ IF pc.at = "test_join"
                 THEN pc'.at = "except" /\ exc' = "APIError"
                 ELSE pytest_message' = "pytest installation error"
         ELSE IF pc.at = "test_join"
         THEN /\ exit_codes' = Append(exit_codes, thread.exit_code)
              /\ exc' = exc
              /\ IF pc.stage = 1
                 THEN result'.test_only_passed = (thread.exit_code = 0)
                 ELSE result'.both_patches_passed = (thread.exit_code = 0)
              /\ result'.status = result.status
         ELSE /\ pc'.at = "verify" <=> thread.exit_code = 0
              /\ thread.exit_code # 0 => pytest_message' = "pytest installation failed"]_vars

C34_Witness ==
    /\ pc = [stage |-> 2, at |-> "classify"]
    /\ exit_codes = <<1, 0>>
    /\ thread.done /\ ~thread.exception /\ thread.exit_code = 0

\* ---------------------------------------------------------------------------
\* A command that ends after its timeout.
\* ---------------------------------------------------------------------------

\* The command thread is still running although its caller has left the wait.
Abandoned == thread.alive /\ ~Joining
TestTimeouts == {"test_only_timeout", "both_patches_timeout"}

\* C35: a step of an abandoned command thread changes nothing the evaluator
\* reads or writes (result, exit codes, logs, position, installation result);
\* a timeout status, once set, stays with all flags and times as they were; and
\* the exit code recorded for a timed-out test stage stays the timeout marker.
C35_LateCompletionIgnored ==
    /\ [][(Abandoned /\ thread' # thread) =>
             /\ result' = result
             /\ exit_codes' = exit_codes
             /\ logs' = logs
             /\ pc' = pc
             /\ exc' = exc
             /\ pytest_success' = pytest_success
             /\ pytest_message' = pytest_message]_vars
    /\ [][result.status \in TestTimeouts => result' = result]_vars
    /\ [][(exit_codes # <<>> /\ exit_codes[Len(exit_codes)] = -1) =>
             exit_codes' = exit_codes]_vars

C35_Witness ==
    /\ Returned
    /\ result.status = "both_patches_timeout"
    /\ thread.kind = "test"
    /\ thread.done /\ thread.exit_code = 0 /\ ~thread.exception
    /\ exit_codes[Len(exit_codes)] = -1
    /\ ~result.both_patches_passed

\* ---------------------------------------------------------------------------
\* A failed teardown between the stages.
\* ---------------------------------------------------------------------------

\* The i-th engine call is the stop or the remove between the stages, and failed.
TeardownFailed(i) ==
    /\ ops[i].stage = 1
    /\ ops[i].at \in {"stop", "remove"}
    /\ ops[i].outcome = "APIError"

\* C36: after a failed stop or remove of the stage-1 container between the
\* stages no engine call of stage 2 is made and both flags stay false; the
\* evaluation returns with status error, and the cleanup has then attempted stop
\* and remove, in this order, on that same container.
C36_TeardownFailure ==
    \A i \in DOMAIN ops : TeardownFailed(i) =>
        /\ \A j \in DOMAIN ops : ops[j].stage # 2
        /\ ~result.env_pass /\ ~result.f2p_pass
        /\ Returned =>
              /\ result.status = "error"
              /\ \E j, k \in DOMAIN ops :
                    /\ i < j /\ j < k
                    /\ ops[j].at = "finally_stop" /\ ops[j].op = "stop" /\ ops[j].c = ops[i].c
                    /\ ops[k].at = "finally_remove" /\ ops[k].op = "remove" /\ ops[k].c = ops[i].c

C36_Witness ==
    /\ Returned
    /\ \E i \in DOMAIN ops : TeardownFailed(i) /\ ops[i].at = "remove"
    /\ result.test_only_passed
    /\ result.status = "error"

\* ---------------------------------------------------------------------------
\* The counters against the number of processed results.
\* ---------------------------------------------------------------------------

WithStatus(details, status) == {i \in DOMAIN details : details[i].status = status}

\* C37: at every point of main the three outcome counters add up to the number
\* of results processed so far, no_image + error does not exceed failed, the two
\* breakdown counters are the numbers of processed results with status no_image
\* and error, and in a written report the three counters add up to its total.
C37_CountersAddUp ==
    mpc # "idle" =>
        /\ results.f2p_passed + results.env_passed + results.failed = Len(results.details)
        /\ results.no_image + results.error <= results.failed
        /\ results.no_image = Cardinality(WithStatus(results.details, "no_image"))
        /\ results.error = Cardinality(WithStatus(results.details, "error"))
        /\ \A i \in DOMAIN report :
              report[i].f2p_passed + report[i].env_passed + report[i].failed = report[i].total

C37_Witness ==
    /\ mpc = "exited"
    /\ Len(report) = 1
    /\ report[1].error >= 1
    /\ report[1].no_image >= 1
    /\ \E k \in DOMAIN futures : futures[k].outcome = Raised

\* ---------------------------------------------------------------------------
\* The instances main evaluates.
\* ---------------------------------------------------------------------------

\* seq lists the instance directories of the listing in sorted order.
IsSortedInstances(seq) ==
    /\ \A i \in DOMAIN seq : seq[i] \in Ids /\ listing[seq[i]] = "instance"
    /\ \A i \in Ids : listing[i] = "instance" => \E k \in DOMAIN seq : seq[k] = i
    /\ \A i, j \in DOMAIN seq : i < j => seq[i] < seq[j]
\* seq is the first n elements of base (all of it when it has fewer).
IsFirst(seq, n, base) ==
    /\ Len(seq) = (IF n < Len(base) THEN n ELSE Len(base))
    /\ \A i \in DOMAIN seq : seq[i] = base[i]
\* seq is base capped by --max_instances.
IsCapped(seq, base) ==
    IF args.max_instances = <<>> THEN seq = base
    ELSE IsFirst(seq, args.max_instances[1], base)

\* C38: the instances evaluated are the explicit list in its order, or else the
\* instance directories in sorted order, cut to the first N under a cap N;
\* statistics.total is their number; and the sequential loop appends the details
\* in this order.
C38_InstanceResolution ==
    (args.output_dir_exists /\ mpc # "start") =>
        /\ IF args.instances # <<>>
           THEN IsCapped(instances_to_eval, args.instances)
           ELSE \E n \in 0..NumInstances : \E base \in [1..n -> Ids] :
                    IsSortedInstances(base) /\ IsCapped(instances_to_eval, base)
        /\ results.total = Len(instances_to_eval)
        /\ \A i \in DOMAIN report : report[i].total = Len(instances_to_eval)
        /\ args.parallel = 1 =>
              /\ Len(results.details) <= Len(instances_to_eval)
              /\ \A i \in DOMAIN results.details :
                    results.details[i].instance_id = instances_to_eval[i]

\* The resolution for a cap that is not 0.
ResolutionExceptCapZero == args.max_instances # <<0>> => C38_InstanceResolution

\* ---------------------------------------------------------------------------
\* The retry loop of the setup workflow.
\* ---------------------------------------------------------------------------

Stops(x) == x.success \/ x.trials = x.max_trials \/ x.exception

\* C39: after a verify step the graph is at save_result exactly if the state is
\* successful, the trial count equals max_trials or an exception is recorded,
\* and otherwise back at setup; the setup/verify pair has run at most max_trials
\* times; save_result has run at most once, and once when END is reached.
C39_BoundedRetries ==
    flow.node # "idle" =>
        /\ flow.node = "save_result" => Stops(flow)
        /\ (flow.node = "setup" /\ flow.runs > 0) => ~Stops(flow)
        /\ flow.runs <= flow.max_trials
        /\ flow.saved <= 1
        /\ flow.node = "END" => flow.saved = 1

\* The same for max_trials of at least 1.
BoundedRetriesFromOne == (flow.node # "idle" /\ flow.max_trials >= 1) => C39_BoundedRetries

\* ---------------------------------------------------------------------------
\* The exported CSV against the evaluator's record.
\* ---------------------------------------------------------------------------

\* C40: in the exported row of an evaluated instance the columns
\* test_only_all_passed and both_patches_all_passed are the stage-1 and stage-2
\* pass flags the evaluation recorded.
C40_CsvStageFlags ==
    csv # <<>> =>
        /\ csv[1].test_only_all_passed = PyStr(result.test_only_passed)
        /\ csv[1].both_patches_all_passed = PyStr(result.both_patches_passed)

\* The other columns of the row are the fields of the record.
CsvOtherColumns ==
    csv # <<>> =>
        /\ csv[1].status = result.status
        /\ csv[1].f2p_pass = PyStr(result.f2p_pass)
        /\ csv[1].env_pass = PyStr(result.env_pass)
        /\ csv[1].test_only_time = result.test_only_time
        /\ csv[1].both_patches_time = result.both_patches_time

====
